---- MODULE Spec2Model ----
(***************************************************************************)
(* SEO remediation pipeline (services/seo_pipeline.py, api/seo_pr.py).     *)
(*                                                                         *)
(* The model follows run_seo_pipeline phase by phase: audit, analysis,     *)
(* clone, per-tier implementation, publish (branch, per-tier commit, push, *)
(* review request), deploy verification and the bounded heal loop, the     *)
(* top-level exception handler and the finally block.  External            *)
(* collaborators (auditor, LLM service, git/gh subprocesses) answer        *)
(* nondeterministically with each outcome their callers distinguish.       *)
(***************************************************************************)
EXTENDS Integers, Sequences, FiniteSets, TLC

\* ------------------------------------------------------------------------
\* Bounds of the model
\* ------------------------------------------------------------------------
MaxTiers == 2
MaxChanges == 2
MaxEdits == 1

\* ------------------------------------------------------------------------
\* Program constants
\* ------------------------------------------------------------------------
\* variant: the loop bound one higher
max_heal_attempts_three == 2 + 1

max_heal_attempts == 2

\* ------------------------------------------------------------------------
\* Generic helpers
\* ------------------------------------------------------------------------
Range(s) == {s[i] : i \in 1..Len(s)}

SetMin(S) == CHOOSE x \in S : \A y \in S : x <= y

SetMax(S) == CHOOSE x \in S : \A y \in S : x >= y

RECURSIVE SumSeq(_)
SumSeq(s) == IF s = <<>> THEN 0 ELSE Head(s) + SumSeq(Tail(s))

\* ------------------------------------------------------------------------
\* LLM raw text: a sequence of tokens.  "members" stands for the key/value
\* text of a JSON object, "items" for the element text of a JSON array,
\* "x" for any non-JSON prose, "fence" for a code-fence marker (three
\* backquotes), "json" for the language tag after it.
\* ------------------------------------------------------------------------
Whitespace == {" ", "\n"}

\* str.lstrip() / str.rstrip() / str.strip()
lstrip(t) ==
    LET I == {i \in 1..Len(t) : t[i] \notin Whitespace}
    IN IF I = {} THEN <<>> ELSE SubSeq(t, SetMin(I), Len(t))

rstrip(t) ==
    LET I == {i \in 1..Len(t) : t[i] \notin Whitespace}
    IN IF I = {} THEN <<>> ELSE SubSeq(t, 1, SetMax(I))

strip(t) == rstrip(lstrip(t))

\* str.find / str.rfind of a one-token needle: 0 when absent (Python: -1)
find(t, tok) ==
    LET I == {i \in 1..Len(t) : t[i] = tok}
    IN IF I = {} THEN 0 ELSE SetMin(I)

rfind(t, tok) ==
    LET I == {i \in 1..Len(t) : t[i] = tok}
    IN IF I = {} THEN 0 ELSE SetMax(I)

startswith(t, tok) == Len(t) > 0 /\ t[1] = tok

endswith(t, tok) == Len(t) > 0 /\ t[Len(t)] = tok

\* json.loads: surrounding whitespace is accepted; the value is an object
\* "{" members? "}" or an array "[" items? "]".  Anything else is a
\* JSONDecodeError.
JSONDecodeError == [kind |-> "JSONDecodeError", empty |-> TRUE]

\* the value of a text s without surrounding whitespace whose content
\* between the outer delimiters is `inner`
json_value(s, inner) ==
    IF Len(s) >= 2 /\ s[1] = "{" /\ s[Len(s)] = "}"
         /\ (inner = <<>> \/ inner = <<"members">>)
    THEN [kind |-> "object", empty |-> (inner = <<>>)]
    ELSE IF Len(s) >= 2 /\ s[1] = "[" /\ s[Len(s)] = "]"
              /\ (inner = <<>> \/ inner = <<"items">>)
    THEN [kind |-> "array", empty |-> (inner = <<>>)]
    ELSE JSONDecodeError

json_loads(t) ==
    CHOOSE v \in { json_value(s, strip(SubSeq(s, 2, Len(s) - 1))) :
                   s \in {strip(t)} } : TRUE

\* The code-fence stripping shared by _extract_json and _extract_edits.
\* text.index("\n") raises ValueError when the fenced text has no newline.
FenceRaises(t) ==
    \E s \in {strip(t)} : startswith(s, "fence") /\ find(s, "\n") = 0

\* text = text[first_newline + 1:], then the closing fence is cut when the
\* rest (a, without trailing whitespace) ends with it
CutClosingFence(a) ==
    IF endswith(a, "fence") THEN rstrip(SubSeq(a, 1, rfind(a, "fence") - 1))
    ELSE a

StripFence(t) ==
    CHOOSE r \in
        { IF startswith(s, "fence")
          THEN strip(CutClosingFence(rstrip(SubSeq(s, find(s, "\n") + 1, Len(s)))))
          ELSE s : s \in {strip(t)} } : TRUE

ValueError == [kind |-> "ValueError", empty |-> TRUE]

\* variant: only the direct parse, without the first-delimiter to
\* last-delimiter retry
ParseBetween_direct(t, open, close) ==
    IF startswith(t, open) THEN json_loads(t) ELSE JSONDecodeError

\* the fallbacks of _extract_json / _extract_edits on the unfenced text t:
\* direct parse when t starts with `open`, then first `open` to last
\* `close`; JSONDecodeError when neither parses
ParseBetween(t, open, close) ==
    CHOOSE v \in
        { IF startswith(t, open) /\ direct # JSONDecodeError THEN direct
          ELSE IF find(t, open) # 0 /\ rfind(t, close) > find(t, open)
          THEN json_loads(SubSeq(t, find(t, open), rfind(t, close)))
          ELSE JSONDecodeError : direct \in {json_loads(t)} } : TRUE

\* _extract_json: the parsed object, or ValueError
_extract_json(text) ==
    IF FenceRaises(text) THEN ValueError
    ELSE CHOOSE v \in
        { IF parsed # JSONDecodeError THEN parsed ELSE ValueError :
          parsed \in {ParseBetween(StripFence(text), "{", "}")} } : TRUE

\* _extract_edits: the parsed array, [] when nothing parses (an empty
\* array), or ValueError escaping from text.index
EmptyList == [kind |-> "array", empty |-> TRUE]

_extract_edits(text) ==
    IF FenceRaises(text) THEN ValueError
    ELSE CHOOSE v \in
        { IF parsed # JSONDecodeError THEN parsed ELSE EmptyList :
          parsed \in {ParseBetween(StripFence(text), "[", "]")} } : TRUE

\* True when no fallback of _extract_edits yields a JSON array
edits_unparseable(text) ==
    \/ FenceRaises(text)
    \/ ParseBetween(StripFence(text), "[", "]") = JSONDecodeError

\* Raw texts the LLM service may answer with (object-shaped requests)
PlanTexts ==
    { <<"{", "members", "}">>,
      <<"fence", "json", "\n", "{", "members", "}", "\n", "fence">>,
      <<"x", "{", "members", "}", "x">>,
      <<"{", "}">>,
      <<"x">>,
      <<"{", "members">>,
      <<"fence", "json">> }

\* Raw texts the LLM service may answer with (array-shaped requests)
EditTexts ==
    { <<"[", "items", "]">>,
      <<"fence", "json", "\n", "[", "items", "]", "\n", "fence">>,
      <<"x", "[", "items", "]", "x">>,
      <<"[", "]">>,
      <<"x">>,
      <<"[", "items">>,
      <<"fence", "json">> }

\* the parse results of the sample texts
ParsedPlan == [t \in PlanTexts |-> _extract_json(t)]

ParsedEdits == [t \in EditTexts |-> _extract_edits(t)]

UnparseableEdits == {t \in EditTexts : edits_unparseable(t)}

\* ------------------------------------------------------------------------
\* Plans and edit lists carried by a parsed answer
\* ------------------------------------------------------------------------
TierName == <<"P0", "P1", "P2", "P3">>

\* the tiers of a plan: tier i is named TierName[i] and plans 0..MaxChanges
\* changes
PlanBodies ==
    UNION { [1..n -> 0..MaxChanges] : n \in 1..MaxTiers }

\* what _apply_edit does with the edits of a list: how many are "applied"
\* (file content changed), how many are a "noop" (the edit succeeded with
\* identical content: search = replace) and how many "fail" (_apply_edit
\* raised).  A parsed non-empty list has 1..MaxEdits edits.
EditBodies ==
    { b \in [applied : 0..MaxEdits, noop : 0..MaxEdits, fail : 0..MaxEdits] :
        b.applied + b.noop + b.fail \in 1..MaxEdits }

NoBody == [applied |-> 0, noop |-> 0, fail |-> 1]

\* ------------------------------------------------------------------------
\* State
\* ------------------------------------------------------------------------
VARIABLES
    pc,           \* position of run_seo_pipeline
    result,       \* the dict run_seo_pipeline returns
    run,          \* the SeoPrRun record as written through _update
    plan,         \* the Planner's plan: error text and tiers
    repo_path,    \* TRUE once clone_repo has returned the workspace path
    ws,           \* the mkdtemp directory: "none", "exists", "removed"
    tier_results, \* implement_seo_changes: per tier edits_applied / errors
    tree,         \* tiers whose edits sit uncommitted in the workspace
    commits,      \* commits on the run's branch, in order
    total_changes,\* create_seo_pr: planned changes of the committed tiers
    tier_idx,     \* create_seo_pr: tiers already visited by the commit loop
    attempt,      \* heal loop counter
    statusLog,    \* every status value written, in order
    calls,        \* external operations issued so far
    verifyLog,    \* outcomes of verify_deploy, in order
    healCalls,    \* number of heal_build executions
    parseFailed,  \* phases whose LLM text failed resilient parsing
    llmRaised,    \* phases whose LLM call raised
    auditError,   \* the audit result carried an error
    audit_result, \* the shape of the dict audit_domain returned
    heal_result,  \* what the latest heal_build returned
    excepted,     \* the top-level except clause ran
    baseIsBranch, \* the configured base branch has the derived branch's name
    checkout_ok,  \* fix_readme_with_pr: git checkout -b succeeded
    vd,           \* verify_deploy: position, clock, last_status, result
    ed,           \* _apply_edit: the workspace files, the edit, the outcomes
    ex,           \* _extract_json / _extract_edits: the texts and their results
    srv           \* the server process: requests, Run records, event loop

vars == <<pc, result, run, plan, repo_path, ws, tier_results, tree, commits,
          total_changes, tier_idx, attempt, statusLog, calls, verifyLog, healCalls,
          parseFailed, llmRaised, auditError, excepted, baseIsBranch,
          checkout_ok, vd, ed, ex, srv, audit_result, heal_result>>

\* the request's environment and the README pipeline's local
env == <<baseIsBranch, checkout_ok, vd, ed, ex, srv, audit_result, heal_result>>

\* the environment proper, without the locals of run_seo_pipeline
envRest == <<baseIsBranch, checkout_ok, vd, ed, ex, srv>>

\* the functions modelled on their own: not running inside the pipelines
aux == <<vd, ed, ex, srv>>

NotCalled == [pc |-> "idle"]

\* the orchestrator's hidden history (not program state proper)
hist == <<verifyLog, healCalls, parseFailed, llmRaised, auditError>>

NoError == <<>>

\* heal_build not called yet
NoHeal == [healed |-> FALSE, edits_applied |-> 0, error |-> NoError]

\* no plan (yet, or any more)
NoPlan == [error |-> NoError, tiers |-> <<>>]

\* dict.update on the Run row: the fields named by u are overwritten
Merge(r, u) == [k \in DOMAIN r |-> IF k \in DOMAIN u THEN u[k] ELSE r[k]]

\* _update(updates): one call of the persistence callback
LogStatus(log, u) ==
    IF "status" \in DOMAIN u THEN Append(log, u.status) ELSE log

_update(u) ==
    /\ run' = Merge(run, u)
    /\ statusLog' = LogStatus(statusLog, u)

\* two consecutive _update calls
_update2(u1, u2) ==
    /\ run' = Merge(Merge(run, u1), u2)
    /\ statusLog' = LogStatus(LogStatus(statusLog, u1), u2)

SeoPrRun ==
    [status |-> "pending", audit_id |-> FALSE, plan_json |-> "{}",
     pr_url |-> "", branch_name |-> "", error |-> NoError,
     changes_made |-> 0, deploy_status |-> "", deploy_log |-> "",
     heal_attempts |-> 0, completed_at |-> FALSE]

Init ==
    /\ pc = "start"
    /\ result = [status |-> "complete", pr_url |-> "", branch_name |-> "",
                 changes_made |-> 0, error |-> NoError]
    /\ run = SeoPrRun
    /\ plan = NoPlan
    /\ repo_path = FALSE
    /\ ws = "none"
    /\ tier_results = <<>>
    /\ tree = {}
    /\ commits = <<>>
    /\ total_changes = 0
    /\ tier_idx = 0
    /\ attempt = 0
    /\ statusLog = <<"pending">>
    /\ calls = {}
    /\ verifyLog = <<>>
    /\ healCalls = 0
    /\ parseFailed = {}
    /\ llmRaised = {}
    /\ auditError = FALSE
    /\ audit_result = "none"
    /\ heal_result = NoHeal
    /\ excepted = FALSE
    /\ baseIsBranch \in BOOLEAN
    /\ checkout_ok = FALSE
    /\ vd = NotCalled
    /\ ed = NotCalled
    /\ ex = NotCalled
    /\ srv = NotCalled

\* finally: the workspace is removed when repo_path is set and the
\* directory exists; run_seo_pipeline has then returned
Return ==
    /\ pc' = "done"
    /\ ws' = IF repo_path /\ ws = "exists" THEN "removed" ELSE ws

\* the pipeline goes on to position p
Goto(p) ==
    /\ pc' = p
    /\ UNCHANGED ws

\* except Exception as e: (top level of run_seo_pipeline), after the
\* updates `before` already issued by the failing phase
ExceptAfter(before, e) ==
    /\ result' = [result EXCEPT !.status = "failed", !.error = e]
    /\ run' = Merge(Merge(run, before),
                    [status |-> "failed", error |-> e, completed_at |-> TRUE])
    /\ statusLog' = Append(LogStatus(statusLog, before), "failed")
    /\ excepted' = TRUE

\* variant: the handler does not stamp the completion time
Except_unstamped(e) ==
    /\ result' = [result EXCEPT !.status = "failed", !.error = e]
    /\ _update([status |-> "failed", error |-> e])
    /\ excepted' = TRUE

Except(e) ==
    /\ result' = [result EXCEPT !.status = "failed", !.error = e]
    /\ _update([status |-> "failed", error |-> e, completed_at |-> TRUE])
    /\ excepted' = TRUE

\* variant: the audit phase starts without marking the Run auditing
BeginAudit_unmarked ==
    /\ UNCHANGED env
    /\ pc = "start"
    /\ Goto("audit")
    /\ UNCHANGED <<result, run, statusLog, plan, repo_path, tier_results,
                   tree, commits, total_changes, tier_idx, attempt, calls,
                   excepted>>
    /\ UNCHANGED hist

\* Phase 1, first statement: the Run is marked auditing
BeginAudit ==
    /\ UNCHANGED env
    /\ pc = "start"
    /\ _update([status |-> "auditing"])
    /\ Goto("audit")
    /\ UNCHANGED <<result, plan, repo_path, tier_results, tree, commits,
                   total_changes, tier_idx, attempt, calls, excepted>>
    /\ UNCHANGED hist

\* the dicts audit_domain may return without "error": every field present,
\* no "pages" key, a page entry without "url", a page entry whose
\* "meta_description" is null
AuditShapes ==
    {"complete", "no_pages", "page_without_url", "null_meta_description"}

\* what the summary lines of analyze_seo_issues raise on the shape:
\* p['url'] (KeyError), p.get('meta_description', 'MISSING')[:100] (TypeError)
SummaryRaises ==
    [shape \in AuditShapes |->
        IF shape = "page_without_url" THEN <<"KeyError", "url">>
        ELSE IF shape = "null_meta_description"
        THEN <<"TypeError", "NoneType is not subscriptable">>
        ELSE NoError]

\* variant: the audit result's error is not looked at
Audit_unchecked ==
    /\ UNCHANGED <<envRest, heal_result>>
    /\ pc = "audit"
    /\ calls' = calls \cup {"audit"}
    /\ \E out \in {"ok", "ok_with_id", "error", "raise"} :
        \/ /\ out = "raise"
           /\ Except(<<"audit exception">>)
           /\ Return
           /\ UNCHANGED <<auditError, audit_result>>
        \/ /\ out \in {"ok", "ok_with_id", "error"}
           /\ audit_result' \in AuditShapes
           /\ IF out = "ok_with_id"
              THEN _update2([audit_id |-> TRUE], [status |-> "analyzing"])
              ELSE _update([status |-> "analyzing"])
           /\ Goto("analyze")
           /\ auditError' = (out = "error")
           /\ UNCHANGED <<result, excepted>>
    /\ UNCHANGED <<plan, repo_path, tier_results, tree, commits,
                   total_changes, tier_idx, attempt, verifyLog, healCalls,
                   parseFailed, llmRaised>>

\* Phase 1: audit_domain returns, reports an error, or raises
Audit ==
    /\ UNCHANGED <<envRest, heal_result>>
    /\ pc = "audit"
    /\ calls' = calls \cup {"audit"}
    /\ \E out \in {"ok", "ok_with_id", "error", "raise"} :
        \/ /\ out = "error"
           /\ result' = [result EXCEPT !.status = "failed",
                            !.error = <<"Audit failed: ", "audit error">>]
           /\ _update([status |-> "failed",
                       error |-> <<"Audit failed: ", "audit error">>])
           /\ auditError' = TRUE
           /\ Return
           /\ UNCHANGED <<excepted, audit_result>>
        \/ /\ out = "raise"
           /\ Except(<<"audit exception">>)
           /\ Return
           /\ UNCHANGED <<auditError, audit_result>>
        \/ /\ out \in {"ok", "ok_with_id"}
           /\ audit_result' \in AuditShapes
           /\ IF out = "ok_with_id"
              THEN _update2([audit_id |-> TRUE], [status |-> "analyzing"])
              ELSE _update([status |-> "analyzing"])
           /\ Goto("analyze")
           /\ UNCHANGED <<result, auditError, excepted>>
    /\ UNCHANGED <<plan, repo_path, tier_results, tree, commits,
                   total_changes, tier_idx, attempt, verifyLog, healCalls,
                   parseFailed, llmRaised>>

\* the plan dict carried by a parsed object whose members are `body`
PlanOf(body) ==
    [error |-> NoError,
     tiers |-> [i \in DOMAIN body |-> [tier |-> TierName[i], changes |-> body[i]]]]

\* analyze_seo_issues: one LLM call; any exception (API error, ValueError
\* from _extract_json) is turned into a plan carrying "error"
analyze_seo_issues(llm, text, body) ==
    IF llm = "raise"
    THEN [error |-> <<"api error">>, tiers |-> <<>>]
    ELSE IF ParsedPlan[text] = ValueError
    THEN [error |-> <<"Could not extract JSON from response", "length">>,
          tiers |-> <<>>]
    ELSE IF ParsedPlan[text].empty
    THEN [error |-> NoError, tiers |-> <<>>]
    ELSE PlanOf(body)

\* variant: the tiers are counted instead of their changes
total_planned_tiers(p) == Len(p.tiers)

total_planned(p) ==
    SumSeq([i \in DOMAIN p.tiers |-> p.tiers[i].changes])

\* Phase 2: the summary of the audit result is built (and may raise), then
\* analysis, plan persisted, zero-change exit, status implementing.
\* "malformed" is a parsed plan whose structure makes the change count raise.
Analyze ==
    /\ UNCHANGED <<envRest, heal_result>>
    /\ pc = "analyze"
    /\ audit_result' = "none"
    /\ \/ /\ SummaryRaises[audit_result] # NoError
          /\ Except(SummaryRaises[audit_result])
          /\ Return
          /\ UNCHANGED <<calls, plan, llmRaised, parseFailed>>
       \/ /\ SummaryRaises[audit_result] = NoError
          /\ calls' = calls \cup {"llm_plan"}
          /\ \E llm \in {"raise", "text", "malformed"} :
             \E text \in IF llm = "raise" THEN {<<"x">>} ELSE PlanTexts :
             \E body \in IF llm = "raise" \/ ParsedPlan[text].empty
                          THEN {<<0>>} ELSE PlanBodies :
              LET p == analyze_seo_issues(llm, text, body) IN
              /\ llmRaised' = IF llm = "raise" THEN llmRaised \cup {"plan"}
                              ELSE llmRaised
              /\ parseFailed' = IF llm # "raise" /\ ParsedPlan[text] = ValueError
                                THEN parseFailed \cup {"plan"} ELSE parseFailed
              /\ plan' = p
              /\ \/ /\ p.error # NoError
                    /\ result' = [result EXCEPT !.status = "failed",
                                     !.error = <<"Analysis failed: ">> \o p.error]
                    /\ _update([status |-> "failed",
                                error |-> <<"Analysis failed: ">> \o p.error,
                                plan_json |-> "error plan"])
                    /\ Return
                    /\ UNCHANGED excepted
                 \/ /\ p.error = NoError
                    /\ llm = "malformed"
                    /\ ExceptAfter([plan_json |-> "plan"],
                                   <<"plan structure exception">>)
                    /\ Return
                 \/ /\ p.error = NoError
                    /\ llm = "text"
                    /\ total_planned(p) = 0
                    /\ result' = [result EXCEPT !.status = "complete",
                                     !.error = <<"No SEO improvements identified">>]
                    /\ _update2([plan_json |-> "plan"],
                                [status |-> "complete",
                                 error |-> <<"No SEO improvements identified">>,
                                 plan_json |-> "plan"])
                    /\ Return
                    /\ UNCHANGED excepted
                 \/ /\ p.error = NoError
                    /\ llm = "text"
                    /\ total_planned(p) > 0
                    /\ _update2([plan_json |-> "plan"], [status |-> "implementing"])
                    /\ Goto("clone")
                    /\ UNCHANGED <<result, excepted>>
    /\ UNCHANGED <<repo_path, tier_results, tree, commits, total_changes,
                   tier_idx, attempt, verifyLog, healCalls, auditError>>

\* Phase 3: clone_repo.  mkdtemp creates the directory; a non-zero exit
\* removes it and raises RuntimeError; a subprocess timeout (or any other
\* exception of subprocess.run) raises with the directory left behind and
\* repo_path still None, so that the finally block does not remove it.
Clone ==
    /\ UNCHANGED env
    /\ pc = "clone"
    /\ calls' = calls \cup {"git clone"}
    /\ \E out \in {"ok", "nonzero", "timeout"} :
        \/ /\ out = "ok"
           /\ ws' = "exists"
           /\ repo_path' = TRUE
           /\ pc' = "implement"
           /\ UNCHANGED <<result, run, statusLog, excepted>>
        \/ /\ out = "nonzero"
           /\ ws' = "removed"
           /\ Except(<<"git clone failed: ", "stderr">>)
           /\ pc' = "done"
           /\ UNCHANGED repo_path
        \/ /\ out = "timeout"
           /\ ws' = IF repo_path THEN "removed" ELSE "exists"
           /\ Except(<<"TimeoutExpired">>)
           /\ pc' = "done"
           /\ UNCHANGED repo_path
    /\ UNCHANGED <<plan, tier_results, tree, commits, total_changes,
                   tier_idx, attempt>>
    /\ UNCHANGED hist

\* implement_seo_changes, the result recorded for one tier
TierResult(tier, llm, text, body) ==
    IF tier.changes = 0
    THEN [tier |-> tier.tier, edits_applied |-> 0, errors |-> 0]
    ELSE IF llm = "raise" \/ ParsedEdits[text] = ValueError
    THEN [tier |-> tier.tier, edits_applied |-> 0, errors |-> 1]
    ELSE IF ParsedEdits[text].empty
    THEN [tier |-> tier.tier, edits_applied |-> 0, errors |-> 0]
    ELSE [tier |-> tier.tier, edits_applied |-> body.applied + body.noop,
          errors |-> body.fail]

\* Phase 4, one iteration of the tier loop of implement_seo_changes
ImplementTier ==
    /\ UNCHANGED env
    /\ pc = "implement"
    /\ Len(tier_results) < Len(plan.tiers)
    /\ LET tier == plan.tiers[Len(tier_results) + 1] IN
       \E llm \in IF tier.changes = 0 THEN {"none"} ELSE {"raise", "text"} :
       \E text \in IF llm = "text" THEN EditTexts ELSE {<<"x">>} :
       \E body \in IF llm = "text" /\ ~ParsedEdits[text].empty
                    THEN EditBodies ELSE {NoBody} :
        /\ tier_results' = Append(tier_results,
                                  TierResult(tier, llm, text, body))
        /\ calls' = IF tier.changes = 0 THEN calls
                    ELSE calls \cup {"llm_edit"}
        /\ llmRaised' = IF llm = "raise" THEN llmRaised \cup {"edit"}
                        ELSE llmRaised
        /\ parseFailed' = IF llm = "text" /\ text \in UnparseableEdits
                          THEN parseFailed \cup {"edit"} ELSE parseFailed
        /\ tree' = IF llm = "text" /\ ~ParsedEdits[text].empty
                      /\ body.applied > 0
                   THEN tree \cup {tier.tier} ELSE tree
    /\ UNCHANGED <<pc, result, run, plan, repo_path, ws, commits,
                   total_changes, tier_idx, attempt, statusLog, verifyLog,
                   healCalls, auditError, excepted>>

\* variant: every edit of the answers is counted, applied or not
total_applied_of_all ==
    SumSeq([i \in DOMAIN tier_results |->
               tier_results[i].edits_applied + tier_results[i].errors])

total_applied == SumSeq([i \in DOMAIN tier_results |-> tier_results[i].edits_applied])

\* Phase 4, after the tier loop: nothing applied ends the Run, otherwise
\* the Run is marked pushing.  tier_results goes out of use here.
ImplementDone ==
    /\ UNCHANGED env
    /\ pc = "implement"
    /\ Len(tier_results) = Len(plan.tiers)
    /\ tier_results' = <<>>
    /\ IF total_applied = 0
       THEN /\ result' = [result EXCEPT !.status = "complete",
                   !.changes_made = 0,
                   !.error = <<"No changes could be applied to repo files">>]
            /\ _update([status |-> "complete",
                        error |-> <<"No changes could be applied to repo files">>,
                        changes_made |-> 0, plan_json |-> "plan"])
            /\ Return
       ELSE /\ result' = [result EXCEPT !.changes_made = total_applied]
            /\ _update([status |-> "pushing", changes_made |-> total_applied])
            /\ Goto("branch")
    /\ UNCHANGED <<plan, repo_path, tree, commits, total_changes, tier_idx,
                   attempt, calls, excepted>>
    /\ UNCHANGED hist

\* branch_name = f"seo-auto/{clean_domain}/{today}"
branch_name == "seo-auto/domain/today"

\* git push origin <branch_name>: the ref it updates on the remote
GitPush == IF baseIsBranch THEN "git push base branch"
           ELSE "git push run branch"

\* run_seo_pipeline after create_seo_pr returned pr: an error without a
\* pr_url fails the Run, anything else marks it verifying.  The locals of
\* create_seo_pr go out of use, and so does the plan: the heal loop passes
\* it on only as prompt text.
\* variant: the result of create_seo_pr is not checked for an error
PublishReturn_unchecked(pr) ==
    /\ result' = [result EXCEPT !.pr_url = pr.pr_url,
                     !.branch_name = branch_name,
                     !.changes_made = pr.changes_made]
    /\ _update([status |-> "verifying", pr_url |-> pr.pr_url,
                branch_name |-> branch_name,
                changes_made |-> pr.changes_made,
                deploy_status |-> "pending", plan_json |-> "plan"])
    /\ Goto("verify")
    /\ total_changes' = 0
    /\ tier_idx' = 0
    /\ plan' = NoPlan
    /\ UNCHANGED excepted

PublishReturn(pr) ==
    /\ IF pr.error # NoError /\ pr.pr_url = ""
       THEN /\ result' = [result EXCEPT !.pr_url = pr.pr_url,
                   !.branch_name = branch_name,
                   !.changes_made = pr.changes_made,
                   !.status = "failed", !.error = pr.error]
            /\ _update([status |-> "failed", pr_url |-> pr.pr_url,
                        branch_name |-> branch_name,
                        changes_made |-> pr.changes_made,
                        error |-> pr.error, completed_at |-> TRUE,
                        plan_json |-> "plan"])
            /\ Return
       ELSE /\ result' = [result EXCEPT !.pr_url = pr.pr_url,
                   !.branch_name = branch_name,
                   !.changes_made = pr.changes_made]
            /\ _update([status |-> "verifying", pr_url |-> pr.pr_url,
                        branch_name |-> branch_name,
                        changes_made |-> pr.changes_made,
                        deploy_status |-> "pending", plan_json |-> "plan"])
            /\ Goto("verify")
    /\ total_changes' = 0
    /\ tier_idx' = 0
    /\ plan' = NoPlan
    /\ UNCHANGED excepted

\* an exception escaping create_seo_pr
PublishRaise(e) ==
    /\ Except(e)
    /\ Return
    /\ total_changes' = 0
    /\ tier_idx' = 0
    /\ plan' = NoPlan

\* variant: the exit status of git checkout -b is not looked at
CreateBranch_unchecked ==
    /\ UNCHANGED env
    /\ pc = "branch"
    /\ calls' = calls \cup {"git checkout -b"}
    /\ \E out \in IF baseIsBranch THEN {"nonzero", "timeout"}
                 ELSE {"ok", "nonzero", "timeout"} :
        \/ /\ out \in {"ok", "nonzero"}
           /\ Goto("commit")
           /\ UNCHANGED <<result, run, statusLog, excepted, total_changes,
                          tier_idx, plan>>
        \/ /\ out = "timeout"
           /\ PublishRaise(<<"TimeoutExpired">>)
    /\ UNCHANGED <<repo_path, tier_results, tree, commits, attempt>>
    /\ UNCHANGED hist

\* Phase 5, create_seo_pr: git checkout -b <branch>
CreateBranch ==
    /\ UNCHANGED env
    /\ pc = "branch"
    /\ calls' = calls \cup {"git checkout -b"}
    /\ \E out \in IF baseIsBranch THEN {"nonzero", "timeout"}
                 ELSE {"ok", "nonzero", "timeout"} :
        \/ /\ out = "ok"
           /\ Goto("commit")
           /\ UNCHANGED <<result, run, statusLog, excepted, total_changes,
                          tier_idx, plan>>
        \/ /\ out = "nonzero"
           /\ PublishRaise(<<"Failed to create branch: ", "stderr">>)
        \/ /\ out = "timeout"
           /\ PublishRaise(<<"TimeoutExpired">>)
    /\ UNCHANGED <<repo_path, tier_results, tree, commits, attempt>>
    /\ UNCHANGED hist

\* Phase 5, create_seo_pr: one iteration of the per-tier commit loop
CommitTier ==
    /\ UNCHANGED env
    /\ pc = "commit"
    /\ tier_idx < Len(plan.tiers)
    /\ LET tier == plan.tiers[tier_idx + 1] IN
       \/ /\ tier.changes = 0
          /\ tier_idx' = tier_idx + 1
          /\ UNCHANGED <<pc, ws, result, run, statusLog, excepted, tree,
                         commits, total_changes, calls, plan>>
       \/ /\ tier.changes > 0
          /\ tree = {}
          /\ calls' = calls \cup {"git status"}
          /\ tier_idx' = tier_idx + 1
          /\ UNCHANGED <<pc, ws, result, run, statusLog, excepted, tree,
                         commits, total_changes, plan>>
       \/ /\ tier.changes > 0
          /\ tree # {}
          /\ calls' = calls \cup {"git status", "git add", "git commit"}
          /\ \E out \in {"ok", "nonzero", "timeout"} :
              \/ /\ out = "ok"
                 /\ commits' = Append(commits,
                        [label |-> tier.tier, edits |-> tree])
                 /\ tree' = {}
                 /\ total_changes' = total_changes + tier.changes
                 /\ tier_idx' = tier_idx + 1
                 /\ UNCHANGED <<pc, ws, result, run, statusLog, excepted,
                                plan>>
              \/ /\ out = "nonzero"
                 /\ tier_idx' = tier_idx + 1
                 /\ UNCHANGED <<pc, ws, result, run, statusLog, excepted,
                                tree, commits, total_changes, plan>>
              \/ /\ out = "timeout"
                 /\ PublishRaise(<<"TimeoutExpired">>)
                 /\ UNCHANGED <<tree, commits>>
    /\ UNCHANGED <<repo_path, tier_results, attempt>>
    /\ UNCHANGED hist

\* Phase 5, create_seo_pr after the commit loop: nothing committed returns
\* "No changes to commit"; otherwise git push origin <branch>
Push ==
    /\ UNCHANGED env
    /\ pc = "commit"
    /\ tier_idx = Len(plan.tiers)
    /\ IF total_changes = 0
       THEN /\ PublishReturn([pr_url |-> "", changes_made |-> 0,
                              error |-> <<"No changes to commit">>])
            /\ UNCHANGED calls
       ELSE /\ calls' = calls \cup {GitPush}
            /\ \E out \in {"ok", "nonzero", "timeout"} :
                \/ /\ out = "ok"
                   /\ Goto("pr")
                   /\ UNCHANGED <<result, run, statusLog, excepted,
                                  total_changes, tier_idx, plan>>
                \/ /\ out = "nonzero"
                   /\ PublishReturn([pr_url |-> "",
                          changes_made |-> total_changes,
                          error |-> <<"Push failed: ", "stderr">>])
                \/ /\ out = "timeout"
                   /\ PublishRaise(<<"TimeoutExpired">>)
    /\ UNCHANGED <<repo_path, tier_results, tree, commits, attempt>>
    /\ UNCHANGED hist

\* Phase 5, create_seo_pr: gh pr create, with one retry after creating the
\* label when the failure mentions a label.  "fail_silent" is a non-zero
\* exit whose stderr is empty after strip() (a gh process ended by a
\* signal, say): the returned error is then the empty string.
CreatePR ==
    /\ UNCHANGED env
    /\ pc = "pr"
    /\ \E out \in {"ok", "fail", "fail_silent", "label_ok", "label_fail",
                    "timeout"} :
        \/ /\ out = "ok"
           /\ calls' = calls \cup {"gh pr create"}
           /\ PublishReturn([pr_url |-> "url", changes_made |-> total_changes,
                             error |-> NoError])
        \/ /\ out = "fail"
           /\ calls' = calls \cup {"gh pr create"}
           /\ PublishReturn([pr_url |-> "", changes_made |-> total_changes,
                             error |-> <<"gh stderr">>])
        \/ /\ out = "fail_silent"
           /\ calls' = calls \cup {"gh pr create"}
           /\ PublishReturn([pr_url |-> "", changes_made |-> total_changes,
                             error |-> NoError])
        \/ /\ out = "label_ok"
           /\ calls' = calls \cup {"gh pr create", "gh label create",
                                   "gh pr create again"}
           /\ PublishReturn([pr_url |-> "url", changes_made |-> total_changes,
                             error |-> NoError])
        \/ /\ out = "label_fail"
           /\ calls' = calls \cup {"gh pr create", "gh label create",
                                   "gh pr create again"}
           /\ PublishReturn([pr_url |-> "", changes_made |-> total_changes,
                             error |-> <<"gh stderr">>])
        \/ /\ out = "timeout"
           /\ calls' = calls \cup {"gh pr create"}
           /\ PublishRaise(<<"TimeoutExpired">>)
    /\ UNCHANGED <<repo_path, tier_results, tree, commits, attempt>>
    /\ UNCHANGED hist

\* variant: the outcome's details and its status written to each other's
\* column
UnverifiedUpdate_swapped(deploy_status) ==
    [status |-> "complete", deploy_status |-> "details",
     deploy_log |-> deploy_status, completed_at |-> TRUE]

\* the update issued when the first verification cannot verify
UnverifiedUpdate(deploy_status) ==
    [status |-> "complete", deploy_status |-> deploy_status,
     deploy_log |-> "details", completed_at |-> TRUE]

\* variant: a passing re-verification recorded like a first-time pass
HealedUpdate_success ==
    [status |-> "complete", deploy_status |-> "success", completed_at |-> TRUE]

\* the update issued when a re-verification passes
HealedUpdate ==
    [status |-> "complete", deploy_status |-> "healed", completed_at |-> TRUE]

\* variant: exhaustion treated as a hard failure of the Run
ExhaustedUpdate_failed ==
    [status |-> "failed", deploy_status |-> "failed",
     error |-> <<"Deploy failed after all heal attempts">>,
     completed_at |-> TRUE]

\* the update issued when the loop ends with the deploy still failing
ExhaustedUpdate ==
    [status |-> "complete", deploy_status |-> "failed",
     error |-> <<"Deploy failed after all heal attempts">>,
     completed_at |-> TRUE]

\* variant: the completion time stamped when healing starts
HealingUpdate_stamped ==
    [status |-> "healing", deploy_status |-> "failed",
     deploy_log |-> "details", completed_at |-> TRUE]

\* the update issued when the first verification reports a failed deploy
HealingUpdate ==
    [status |-> "healing", deploy_status |-> "failed",
     deploy_log |-> "details"]

\* variant: the pushed fix is re-verified without marking the Run verifying
ReverifyUpdate_unmarked == [deploy_status |-> "pending"]

\* the update issued when a heal attempt has pushed its fix
ReverifyUpdate == [status |-> "verifying", deploy_status |-> "pending"]

\* what verify_deploy can return
VerifyOutcomes == {"success", "failed", "no_checks", "timeout"}

\* Phase 6: the first verify_deploy and its classification
Verify ==
    /\ UNCHANGED env
    /\ pc = "verify"
    /\ calls' = calls \cup {"gh api"}
    /\ \E deploy_status \in VerifyOutcomes :
        /\ verifyLog' = Append(verifyLog, deploy_status)
        /\ \/ /\ deploy_status = "success"
              /\ result' = [result EXCEPT !.status = "complete"]
              /\ _update([status |-> "complete", deploy_status |-> "success",
                          completed_at |-> TRUE])
              /\ Return
              /\ UNCHANGED attempt
           \/ /\ deploy_status \in {"no_checks", "timeout"}
              /\ result' = [result EXCEPT !.status = "complete",
                               !.error = NoError]
              /\ _update(UnverifiedUpdate(deploy_status))
              /\ Return
              /\ UNCHANGED attempt
           \/ /\ deploy_status = "failed"
              /\ _update(HealingUpdate)
              /\ attempt' = 1
              /\ Goto("heal")
              /\ UNCHANGED result
    /\ UNCHANGED <<plan, repo_path, tier_results, tree, commits,
                   total_changes, tier_idx, healCalls, parseFailed, llmRaised,
                   auditError, excepted>>

\* heal_build: diagnose (one LLM call whose exceptions and parse failures
\* become an empty edit list), apply, commit, push
heal_build(llm, text, body, commit, push) ==
    LET noEdits == \/ llm = "raise"
                   \/ ParsedEdits[text] = ValueError
                   \/ ParsedEdits[text].empty
        applied == body.applied + body.noop
        dirty == IF body.applied > 0 THEN tree \cup {"fix"} ELSE tree
        committed == dirty # {} /\ commit = "ok"
    IN  IF noEdits
        THEN [healed |-> FALSE, tree |-> tree, commits |-> commits,
              calls |-> {"llm_heal"}, edits_applied |-> 0,
              error |-> <<"Could not determine fix from build log">>]
        ELSE IF applied = 0
        THEN [healed |-> FALSE, tree |-> tree, commits |-> commits,
              calls |-> {"llm_heal"}, edits_applied |-> 0,
              error |-> <<"No edits could be applied: ", "errors">>]
        ELSE IF ~committed
        THEN [healed |-> FALSE, tree |-> dirty, commits |-> commits,
              calls |-> {"llm_heal", "git add", "git commit"},
              edits_applied |-> applied,
              error |-> <<"Commit failed: ", "stderr">>]
        ELSE IF push # "ok"
        THEN [healed |-> FALSE, tree |-> {},
              commits |-> Append(commits, [label |-> "fix", edits |-> dirty]),
              calls |-> {"llm_heal", "git add", "git commit", GitPush},
              edits_applied |-> applied,
              error |-> <<"Push failed: ", "stderr">>]
        ELSE [healed |-> TRUE, tree |-> {},
              commits |-> Append(commits, [label |-> "fix", edits |-> dirty]),
              calls |-> {"llm_heal", "git add", "git commit", GitPush},
              edits_applied |-> applied,
              error |-> NoError]

\* Phase 6: one iteration of the heal loop up to (not including) the
\* re-verification.  "timeout" is an exception escaping heal_build (a git
\* subprocess timing out).
Heal ==
    /\ UNCHANGED <<envRest, audit_result>>
    /\ pc = "heal"
    /\ attempt <= max_heal_attempts
    /\ healCalls' = healCalls + 1
    /\ \E llm \in {"raise", "text", "timeout"} :
       \E text \in IF llm = "text" THEN EditTexts ELSE {<<"x">>} :
       \E body \in IF llm = "text" /\ ~ParsedEdits[text].empty
                    THEN EditBodies ELSE {NoBody} :
       \E commit \in IF llm = "text" /\ ~ParsedEdits[text].empty
                         /\ body.applied + body.noop > 0
                      THEN {"ok", "nonzero"} ELSE {"nonzero"} :
       \E push \in IF commit = "ok" THEN {"ok", "nonzero"} ELSE {"nonzero"} :
        LET hr == heal_build(llm, text, body, commit, push) IN
        /\ llmRaised' = IF llm = "raise" THEN llmRaised \cup {"heal"}
                        ELSE llmRaised
        /\ parseFailed' = IF llm = "text" /\ text \in UnparseableEdits
                          THEN parseFailed \cup {"heal"} ELSE parseFailed
        /\ calls' = calls \cup hr.calls
        /\ tree' = hr.tree
        /\ commits' = hr.commits
        /\ heal_result' = IF llm = "timeout" THEN heal_result
                          ELSE [healed |-> hr.healed,
                                edits_applied |-> hr.edits_applied,
                                error |-> hr.error]
        /\ \/ /\ llm = "timeout"
              /\ ExceptAfter([heal_attempts |-> attempt], <<"TimeoutExpired">>)
              /\ Return
              /\ UNCHANGED attempt
           \/ /\ llm # "timeout"
              /\ ~hr.healed
              /\ attempt = max_heal_attempts
              /\ result' = [result EXCEPT !.status = "complete",
                     !.error = <<"Deploy failed, heal failed: ">>
                                   \o hr.error]
              /\ _update2([heal_attempts |-> attempt],
                          [status |-> "complete", deploy_status |-> "failed",
                           error |-> <<"Deploy failed, heal failed: ">>
                                         \o hr.error,
                           completed_at |-> TRUE])
              /\ Return
              /\ UNCHANGED <<attempt, excepted>>
           \/ /\ llm # "timeout"
              /\ ~hr.healed
              /\ attempt < max_heal_attempts
              /\ _update([heal_attempts |-> attempt])
              /\ attempt' = attempt + 1
              /\ UNCHANGED <<pc, ws, result, excepted>>
           \/ /\ llm # "timeout"
              /\ hr.healed
              /\ _update2([heal_attempts |-> attempt], ReverifyUpdate)
              /\ Goto("reverify")
              /\ UNCHANGED <<attempt, result, excepted>>
    /\ UNCHANGED <<plan, repo_path, tier_results, total_changes, tier_idx,
                   verifyLog, auditError>>

\* Phase 6: verify_deploy after a pushed fix, and the exhaustion exit
Reverify ==
    /\ UNCHANGED env
    /\ pc = "reverify"
    /\ calls' = calls \cup {"gh api"}
    /\ \E deploy_status \in VerifyOutcomes :
        /\ verifyLog' = Append(verifyLog, deploy_status)
        /\ \/ /\ deploy_status = "success"
              /\ result' = [result EXCEPT !.status = "complete"]
              /\ _update(HealedUpdate)
              /\ Return
              /\ UNCHANGED attempt
           \/ /\ deploy_status \in {"no_checks", "timeout"}
              /\ result' = [result EXCEPT !.status = "complete"]
              /\ _update([status |-> "complete", deploy_status |-> "healed",
                          deploy_log |-> "details", completed_at |-> TRUE])
              /\ Return
              /\ UNCHANGED attempt
           \/ /\ deploy_status = "failed"
              /\ attempt < max_heal_attempts
              /\ attempt' = attempt + 1
              /\ Goto("heal")
              /\ UNCHANGED <<result, run, statusLog>>
           \/ /\ deploy_status = "failed"
              /\ attempt = max_heal_attempts
              /\ result' = [result EXCEPT !.status = "complete",
                     !.error = <<"Deploy failed after all heal attempts">>]
              /\ _update(ExhaustedUpdate)
              /\ Return
              /\ UNCHANGED attempt
    /\ UNCHANGED <<plan, repo_path, tier_results, tree, commits,
                   total_changes, tier_idx, healCalls, parseFailed, llmRaised,
                   auditError, excepted>>

\* ------------------------------------------------------------------------
\* fix_readme_with_pr: clone, rewrite the README, branch, commit, push, PR
\* ------------------------------------------------------------------------
seoVars == <<run, plan, tier_results, total_changes, tier_idx, attempt,
             statusLog, verifyLog, healCalls, parseFailed, llmRaised,
             auditError, excepted>>

InitReadme ==
    /\ pc = "readme"
    /\ result = [status |-> "complete", pr_url |-> "", branch_name |-> "",
                 changes_made |-> 0, error |-> NoError]
    /\ run = SeoPrRun
    /\ plan = NoPlan
    /\ repo_path = FALSE
    /\ ws = "none"
    /\ tier_results = <<>>
    /\ tree = {}
    /\ commits = <<>>
    /\ total_changes = 0
    /\ tier_idx = 0
    /\ attempt = 0
    /\ statusLog = <<"pending">>
    /\ calls = {}
    /\ verifyLog = <<>>
    /\ healCalls = 0
    /\ parseFailed = {}
    /\ llmRaised = {}
    /\ auditError = FALSE
    /\ audit_result = "none"
    /\ heal_result = NoHeal
    /\ excepted = FALSE
    /\ baseIsBranch \in BOOLEAN
    /\ checkout_ok = FALSE
    /\ vd = NotCalled
    /\ ed = NotCalled
    /\ ex = NotCalled
    /\ srv = NotCalled

\* return {...} of fix_readme_with_pr, followed by its finally block
ReadmeReturn(pr_url, error) ==
    /\ result' = [result EXCEPT !.pr_url = pr_url, !.error = error]
    /\ pc' = "readme_done"
    /\ ws' = IF repo_path /\ ws = "exists" THEN "removed" ELSE ws

\* Phase 1: clone_repo
ReadmeClone ==
    /\ pc = "readme"
    /\ calls' = calls \cup {"git clone"}
    /\ \E out \in {"ok", "nonzero", "timeout"} :
        \/ /\ out = "ok"
           /\ ws' = "exists"
           /\ repo_path' = TRUE
           /\ pc' = "readme_generate"
           /\ UNCHANGED result
        \/ /\ out = "nonzero"
           /\ ws' = "removed"
           /\ result' = [result EXCEPT
                            !.error = <<"git clone failed: ", "stderr">>]
           /\ pc' = "readme_done"
           /\ UNCHANGED repo_path
        \/ /\ out = "timeout"
           /\ ws' = IF repo_path THEN "removed" ELSE "exists"
           /\ result' = [result EXCEPT !.error = <<"TimeoutExpired">>]
           /\ pc' = "readme_done"
           /\ UNCHANGED repo_path
    /\ UNCHANGED <<tree, commits>>
    /\ UNCHANGED seoVars
    /\ UNCHANGED env

\* Phases 2-4: find the README, ask the LLM for an improved one, write it
ReadmeGenerate ==
    /\ pc = "readme_generate"
    /\ \E out \in {"no_readme", "raise", "too_short", "same", "improved"} :
        \/ /\ out = "no_readme"
           /\ ReadmeReturn("", <<"No README found in repo">>)
           /\ UNCHANGED <<calls, tree>>
        \/ /\ out = "raise"
           /\ calls' = calls \cup {"llm_readme"}
           /\ ReadmeReturn("", <<"api error">>)
           /\ UNCHANGED tree
        \/ /\ out = "too_short"
           /\ calls' = calls \cup {"llm_readme"}
           /\ ReadmeReturn("", <<"Claude returned empty or too-short README">>)
           /\ UNCHANGED tree
        \/ /\ out \in {"same", "improved"}
           /\ calls' = calls \cup {"llm_readme"}
           /\ tree' = IF out = "improved" THEN {"README"} ELSE {}
           /\ pc' = "readme_commit"
           /\ UNCHANGED <<result, ws>>
    /\ UNCHANGED <<repo_path, commits>>
    /\ UNCHANGED seoVars
    /\ UNCHANGED env

\* Phase 5: git checkout -b (exit status ignored), git add, git commit
ReadmeCommit ==
    /\ pc = "readme_commit"
    /\ calls' = calls \cup {"git checkout -b", "git add", "git commit"}
    /\ \E co \in IF baseIsBranch THEN {FALSE} ELSE BOOLEAN :
       \E out \in IF tree = {} THEN {"nonzero", "timeout"}
                  ELSE {"ok", "nonzero", "timeout"} :
        /\ checkout_ok' = co
        /\ \/ /\ out = "ok"
              /\ commits' = Append(commits,
                                   [label |-> "README", edits |-> tree])
              /\ tree' = {}
              /\ pc' = "readme_push"
              /\ UNCHANGED <<result, ws>>
           \/ /\ out = "nonzero"
              /\ ReadmeReturn("", <<"Nothing to commit">>)
              /\ UNCHANGED <<commits, tree>>
           \/ /\ out = "timeout"
              /\ ReadmeReturn("", <<"TimeoutExpired">>)
              /\ UNCHANGED <<commits, tree>>
    /\ UNCHANGED <<repo_path, baseIsBranch>>
    /\ UNCHANGED seoVars
    /\ UNCHANGED <<aux, audit_result, heal_result>>

\* Phase 5: git push origin <branch_name>.  Without the new branch the
\* name resolves only when it is the base branch that was cloned.
ReadmePush ==
    /\ pc = "readme_push"
    /\ calls' = calls \cup {GitPush}
    /\ \E out \in IF ~checkout_ok /\ ~baseIsBranch THEN {"nonzero", "timeout"}
                  ELSE {"ok", "nonzero", "timeout"} :
        \/ /\ out = "ok"
           /\ pc' = "readme_pr"
           /\ UNCHANGED <<result, ws>>
        \/ /\ out = "nonzero"
           /\ ReadmeReturn("", <<"Push failed: ", "stderr">>)
        \/ /\ out = "timeout"
           /\ ReadmeReturn("", <<"TimeoutExpired">>)
    /\ UNCHANGED <<repo_path, tree, commits>>
    /\ UNCHANGED seoVars
    /\ UNCHANGED env

\* Phase 5: gh pr create, retried once when the failure mentions a label
ReadmePR ==
    /\ pc = "readme_pr"
    /\ calls' = calls \cup {"gh pr create"}
    /\ \E out \in {"ok", "fail", "timeout"} :
        \/ /\ out = "ok"
           /\ ReadmeReturn("url", NoError)
        \/ /\ out = "fail"
           /\ ReadmeReturn("", <<"gh stderr">>)
        \/ /\ out = "timeout"
           /\ ReadmeReturn("", <<"TimeoutExpired">>)
    /\ UNCHANGED <<repo_path, tree, commits>>
    /\ UNCHANGED seoVars
    /\ UNCHANGED env

Next ==
    \/ BeginAudit
    \/ Audit
    \/ Analyze
    \/ Clone
    \/ ImplementTier
    \/ ImplementDone
    \/ CreateBranch
    \/ CommitTier
    \/ Push
    \/ CreatePR
    \/ Verify
    \/ Heal
    \/ Reverify

Spec == Init /\ [][Next]_vars

\* every external call returns or raises: the pipeline keeps taking steps
SpecLive == Init /\ [][Next]_vars /\ WF_vars(Next)

\* either pipeline of the module is invoked
NextVcs ==
    \/ Next
    \/ ReadmeClone
    \/ ReadmeGenerate
    \/ ReadmeCommit
    \/ ReadmePush
    \/ ReadmePR

SpecVcs == (Init \/ InitReadme) /\ [][NextVcs]_vars

\* ------------------------------------------------------------------------
\* verify_deploy: the poll loop against the checks and status APIs, with
\* the wall clock in seconds since the invocation began
\* ------------------------------------------------------------------------
max_wait == 300

poll_interval == 15

\* timeout=15 of each gh subprocess
subprocess_timeout == 15

\* if elapsed > 60: no checks configured
no_checks_after == 60

pipeVars == <<pc, result, run, plan, repo_path, ws, tier_results, tree,
              commits, total_changes, tier_idx, attempt, statusLog, calls,
              verifyLog, healCalls, parseFailed, llmRaised, auditError,
              excepted, baseIsBranch, checkout_ok, audit_result,
              heal_result>>

\* what one pass through the loop body can meet
PollOutcomes ==
    {"sha_nonzero", "sha_empty", "checks_nonzero", "raise",
     "check_success", "check_failure", "check_running",
     "status_success", "status_failure", "status_pending", "status_blank",
     "nothing"}

\* the time the gh calls of one pass can take: up to three calls, each cut
\* off at its timeout
PollDurations == {k * subprocess_timeout : k \in 0..3}

\* Python truthiness of last_status (None and "" are falsy)
Truthy(last_status) == last_status \notin {"None", ""}

InitVerify ==
    /\ pc = "verify_deploy"
    /\ result = [status |-> "complete", pr_url |-> "", branch_name |-> "",
                 changes_made |-> 0, error |-> NoError]
    /\ run = SeoPrRun
    /\ plan = NoPlan
    /\ repo_path = FALSE
    /\ ws = "none"
    /\ tier_results = <<>>
    /\ tree = {}
    /\ commits = <<>>
    /\ total_changes = 0
    /\ tier_idx = 0
    /\ attempt = 0
    /\ statusLog = <<"pending">>
    /\ calls = {}
    /\ verifyLog = <<>>
    /\ healCalls = 0
    /\ parseFailed = {}
    /\ llmRaised = {}
    /\ auditError = FALSE
    /\ audit_result = "none"
    /\ heal_result = NoHeal
    /\ excepted = FALSE
    /\ baseIsBranch = FALSE
    /\ checkout_ok = FALSE
    /\ \E token \in BOOLEAN :
          vd = [pc |-> "start", token |-> token, now |-> 0,
                last_status |-> "None", polls |-> 0, ret |-> "none",
                out |-> "none", elapsed |-> 0, seen_pending |-> FALSE]
    /\ ed = NotCalled
    /\ ex = NotCalled
    /\ srv = NotCalled

\* return {"status": status, ...}
VdReturn(v, status) == [v EXCEPT !.pc = "returned", !.ret = status]

\* variant: the pass goes round again without sleeping
VdSleep_skipped(v, d) == [v EXCEPT !.pc = "test", !.now = v.now + d]

\* await asyncio.sleep(poll_interval) after a pass whose calls took d, then
\* back to the loop test
VdSleep(v, d) == [v EXCEPT !.pc = "test", !.now = v.now + d + poll_interval]

\* if not token: return no_checks; start = time.time()
VdStart ==
    /\ vd.pc = "start"
    /\ vd' = IF vd.token THEN [vd EXCEPT !.pc = "test"]
             ELSE VdReturn(vd, "no_checks")
    /\ UNCHANGED <<pipeVars, ed, ex, srv>>

\* while (time.time() - start) < max_wait: ... ; return timeout
VdLoopTest ==
    /\ vd.pc = "test"
    /\ vd' = IF vd.now < max_wait
             THEN [vd EXCEPT !.pc = "poll", !.polls = vd.polls + 1]
             ELSE VdReturn(vd, "timeout")
    /\ UNCHANGED <<pipeVars, ed, ex, srv>>

\* the classification of one pass that met `out`, its gh calls done at
\* time `elapsed` and having taken d
VdClassify(v, out, d) ==
    IF out \in {"sha_nonzero", "sha_empty"}
    THEN VdReturn(v, "no_checks")
    ELSE IF out \in {"check_success", "status_success"}
    THEN VdReturn(v, "success")
    ELSE IF out \in {"check_failure", "status_failure"}
    THEN VdReturn(v, "failed")
    ELSE IF out \in {"checks_nonzero", "raise"}
    THEN VdSleep(v, d)
    ELSE IF out = "check_running"
    THEN VdSleep([v EXCEPT !.last_status = "in_progress"], d)
    ELSE IF out = "status_pending"
    THEN VdSleep([v EXCEPT !.last_status = "pending"], d)
    ELSE IF out = "status_blank" /\ (v.now + d) > no_checks_after
    THEN VdReturn([v EXCEPT !.last_status = ""], "no_checks")
    ELSE IF out = "status_blank"
    THEN VdSleep([v EXCEPT !.last_status = ""], d)
    ELSE IF ~Truthy(v.last_status) /\ (v.now + d) > no_checks_after
    THEN VdReturn(v, "no_checks")
    ELSE VdSleep(v, d)

\* one pass through the loop body.  out, elapsed and seen_pending record
\* what the pass met, when its gh calls were done, and whether a pending
\* check run or status has been met so far.
VdPoll ==
    /\ vd.pc = "poll"
    /\ \E out \in PollOutcomes : \E d \in PollDurations :
        vd' = VdClassify(
                [vd EXCEPT !.out = out, !.elapsed = vd.now + d,
                           !.seen_pending =
                               @ \/ out \in {"check_running", "status_pending"}],
                out, d)
    /\ UNCHANGED <<pipeVars, ed, ex, srv>>

NextVerify ==
    \/ VdStart
    \/ VdLoopTest
    \/ VdPoll

\* every pass and every sleep returns: the invocation keeps taking steps
SpecVerify == InitVerify /\ [][NextVerify]_vars /\ WF_vars(NextVerify)

\* ------------------------------------------------------------------------
\* _apply_edit: one search-and-replace edit on one file of the workspace.
\* File contents and the edit's strings are sequences of characters.
\* ------------------------------------------------------------------------
MaxContent == 3

MaxSearch == MaxContent - 1

MaxReplace == MaxContent - 2

Chars == {"a", " ", "\n"}

Strings(n) == UNION { [1..k -> Chars] : k \in 0..n }

\* the start positions of needle in text (every position for an empty
\* needle, as in Python)
Occurrences(text, needle) ==
    { i \in 1..(Len(text) - Len(needle) + 1) :
        SubSeq(text, i, i + Len(needle) - 1) = needle }

\* needle in text
contains(text, needle) == Occurrences(text, needle) # {}

\* variant: the rest is taken after the length of the replacement instead
\* of the length of the replaced text
replace_first_miscut(text, old, new) ==
    IF Occurrences(text, old) = {} THEN text
    ELSE CHOOSE r \in
        { SubSeq(text, 1, i - 1) \o new \o SubSeq(text, i + Len(new), Len(text)) :
          i \in {SetMin(Occurrences(text, old))} } : TRUE

\* text.replace(old, new, 1)
replace_first(text, old, new) ==
    IF Occurrences(text, old) = {} THEN text
    ELSE CHOOSE r \in
        { SubSeq(text, 1, i - 1) \o new \o SubSeq(text, i + Len(old), Len(text)) :
          i \in {SetMin(Occurrences(text, old))} } : TRUE

\* " ".join(text.split()): whitespace runs collapsed to one blank, none at
\* either end
RECURSIVE Collapse(_, _)
Collapse(text, afterBlank) ==
    IF text = <<>> THEN <<>>
    ELSE IF Head(text) \in Whitespace
    THEN (IF afterBlank THEN <<>> ELSE <<" ">>) \o Collapse(Tail(text), TRUE)
    ELSE <<Head(text)>> \o Collapse(Tail(text), FALSE)

normalise(text) == rstrip(Collapse(text, TRUE))

\* text.split("\n")
RECURSIVE split_lines(_)
split_lines(text) ==
    IF find(text, "\n") = 0 THEN <<text>>
    ELSE <<SubSeq(text, 1, find(text, "\n") - 1)>>
         \o split_lines(SubSeq(text, find(text, "\n") + 1, Len(text)))

\* the lines whose normalised text contains the normalised search
LenientMatches(lines, search) ==
    { i \in DOMAIN lines : contains(normalise(lines[i]), normalise(search)) }

\* the content after a successful edit: the first verbatim occurrence is
\* replaced, else the text of the first leniently matching line is
\* replaced (content.replace(line, replace, 1))
EditedContent(content, search, replace) ==
    IF contains(content, search)
    THEN replace_first(content, search, replace)
    ELSE CHOOSE r \in
        { replace_first(content, lines[SetMin(LenientMatches(lines, search))],
                        replace) :
          lines \in {split_lines(content)} } : TRUE

\* the anchor is found verbatim or by the lenient line match
AnchorFound(content, search) ==
    \/ contains(content, search)
    \/ LenientMatches(split_lines(content), search) # {}

\* variant: the file is opened for writing before the anchor is looked up,
\* so a failed lookup leaves it empty
_apply_edit_truncating(files, edit) ==
    IF edit.file_path = "" \/ edit.search = <<>>
    THEN [error |-> "Missing file_path or search text", files |-> files]
    ELSE IF edit.file_path \notin DOMAIN files
    THEN [error |-> "File not found", files |-> files]
    ELSE IF ~AnchorFound(files[edit.file_path], edit.search)
    THEN [error |-> "Search text not found",
          files |-> [files EXCEPT ![edit.file_path] = <<>>]]
    ELSE [error |-> "none",
          files |-> [files EXCEPT ![edit.file_path] =
                        EditedContent(@, edit.search, edit.replace)]]

\* _apply_edit: the exception raised ("none" when it returns) and the
\* workspace files afterwards
_apply_edit(files, edit) ==
    IF edit.file_path = "" \/ edit.search = <<>>
    THEN [error |-> "Missing file_path or search text", files |-> files]
    ELSE IF edit.file_path \notin DOMAIN files
    THEN [error |-> "File not found", files |-> files]
    ELSE IF ~AnchorFound(files[edit.file_path], edit.search)
    THEN [error |-> "Search text not found", files |-> files]
    ELSE [error |-> "none",
          files |-> [files EXCEPT ![edit.file_path] =
                        EditedContent(@, edit.search, edit.replace)]]

\* the workspace: the target file "f" and another file "g"; the edit
\* names "f", no path, or a file that does not exist
InitEdit ==
    /\ pc = "apply_edit"
    /\ result = [status |-> "complete", pr_url |-> "", branch_name |-> "",
                 changes_made |-> 0, error |-> NoError]
    /\ run = SeoPrRun
    /\ plan = NoPlan
    /\ repo_path = FALSE
    /\ ws = "none"
    /\ tier_results = <<>>
    /\ tree = {}
    /\ commits = <<>>
    /\ total_changes = 0
    /\ tier_idx = 0
    /\ attempt = 0
    /\ statusLog = <<"pending">>
    /\ calls = {}
    /\ verifyLog = <<>>
    /\ healCalls = 0
    /\ parseFailed = {}
    /\ llmRaised = {}
    /\ auditError = FALSE
    /\ audit_result = "none"
    /\ heal_result = NoHeal
    /\ excepted = FALSE
    /\ baseIsBranch = FALSE
    /\ checkout_ok = FALSE
    /\ vd = NotCalled
    /\ ex = NotCalled
    /\ srv = NotCalled
    /\ \E file_path \in {"f", "", "h"} :
       \E content \in IF file_path = "f" THEN Strings(MaxContent)
                      ELSE {<<"a">>} :
       \E search \in IF file_path = "f" THEN Strings(MaxSearch)
                     ELSE {<<>>, <<"a">>} :
       \E replace \in IF file_path = "f" THEN Strings(MaxReplace)
                      ELSE {<<" ">>} :
          ed = [pc |-> "edit",
                edit |-> [file_path |-> file_path, search |-> search,
                          replace |-> replace],
                orig |-> [f |-> content, g |-> <<"a", "\n">>],
                prev |-> [f |-> content, g |-> <<"a", "\n">>],
                files |-> [f |-> content, g |-> <<"a", "\n">>],
                results |-> <<>>]

\* the edit is applied to the workspace (twice in a row at most)
ApplyEdit ==
    /\ ed.pc = "edit"
    /\ Len(ed.results) < 2
    /\ \E r \in {_apply_edit(ed.files, ed.edit)} :
          ed' = [ed EXCEPT !.prev = ed.files, !.files = r.files,
                           !.results = Append(@, r.error)]
    /\ UNCHANGED <<pipeVars, vd, ex, srv>>

NextEdit == ApplyEdit

SpecEdit == InitEdit /\ [][NextEdit]_vars

\* ------------------------------------------------------------------------
\* _extract_json and _extract_edits on the three shapes of an answer: the
\* bare JSON text, the text in a code fence, the text inside prose.
\* ------------------------------------------------------------------------
MaxNoise == 2

\* the tokens of the prose around the JSON text
NoiseTokens == {"x", "{", "}", "[", "]", "fence"}

Noise(n) == UNION { [1..k -> NoiseTokens] : k \in 0..n }

\* the text of a JSON object or array with the given content
JsonText(kind, inner) ==
    IF kind = "object" THEN <<"{">> \o inner \o <<"}">>
    ELSE <<"[">> \o inner \o <<"]">>

\* "```json\n" + text + "\n```"
Fenced(text) == <<"fence", "json", "\n">> \o text \o <<"\n", "fence">>

\* the extractor for the kind of value the caller asks for
extract(kind, text) ==
    IF kind = "object" THEN _extract_json(text) ELSE _extract_edits(text)

NotParsed == [kind |-> "none", empty |-> TRUE]

PipelineNotRunning ==
    /\ result = [status |-> "complete", pr_url |-> "", branch_name |-> "",
                 changes_made |-> 0, error |-> NoError]
    /\ run = SeoPrRun
    /\ plan = NoPlan
    /\ repo_path = FALSE
    /\ ws = "none"
    /\ tier_results = <<>>
    /\ tree = {}
    /\ commits = <<>>
    /\ total_changes = 0
    /\ tier_idx = 0
    /\ attempt = 0
    /\ statusLog = <<"pending">>
    /\ calls = {}
    /\ verifyLog = <<>>
    /\ healCalls = 0
    /\ parseFailed = {}
    /\ llmRaised = {}
    /\ auditError = FALSE
    /\ audit_result = "none"
    /\ heal_result = NoHeal
    /\ excepted = FALSE
    /\ baseIsBranch = FALSE
    /\ checkout_ok = FALSE

InitExtract ==
    /\ pc = "extract"
    /\ PipelineNotRunning
    /\ vd = NotCalled
    /\ ed = NotCalled
    /\ srv = NotCalled
    /\ \E kind \in {"object", "array"} :
       \E inner \in IF kind = "object" THEN {<<>>, <<"members">>}
                    ELSE {<<>>, <<"items">>} :
       \E before \in Noise(MaxNoise) :
       \E after \in Noise(MaxNoise - 1) :
          ex = [pc |-> "texts", kind |-> kind, inner |-> inner,
                before |-> before, after |-> after,
                bare |-> NotParsed, fenced |-> NotParsed, noisy |-> NotParsed]

\* the extractor is called on each of the three texts
Extract ==
    /\ ex.pc = "texts"
    /\ \E text \in {JsonText(ex.kind, ex.inner)} :
          ex' = [ex EXCEPT !.pc = "parsed",
                           !.bare = extract(ex.kind, text),
                           !.fenced = extract(ex.kind, Fenced(text)),
                           !.noisy = extract(ex.kind, ex.before \o text \o ex.after)]
    /\ UNCHANGED <<pipeVars, vd, ed, srv>>

NextExtract == Extract

SpecExtract == InitExtract /\ [][NextExtract]_vars

\* ------------------------------------------------------------------------
\* The server process (api/seo_pr.py): the trigger endpoint, the Run rows,
\* the background tasks and the one event-loop thread that runs them.  A
\* pipeline execution is followed here only through its external calls.
\* ------------------------------------------------------------------------
MaxRuns == 2

\* domains a request may carry, as token sequences
Domains == { <<"a.com">>, <<"https://", "a.com">>, <<"b.com", "/">> }

NoDomain == <<>>

\* calendar days datetime.date.today() may return
Dates == {"d1", "d2"}

\* domain.replace("https://", "").replace("http://", "").replace("/", "_")
RECURSIVE clean_domain(_)
clean_domain(domain) ==
    IF domain = <<>> THEN <<>>
    ELSE IF Head(domain) \in {"https://", "http://"}
    THEN clean_domain(Tail(domain))
    ELSE IF Head(domain) = "/" THEN <<"_">> \o clean_domain(Tail(domain))
    ELSE <<Head(domain)>> \o clean_domain(Tail(domain))

\* variant: the domain goes into the name as given
branch_name_raw(domain, today) == <<"seo-auto/">> \o domain \o <<"/", today>>

\* branch_name = f"seo-auto/{clean_domain}/{today}"
branch_name_of(domain, today) ==
    <<"seo-auto/">> \o clean_domain(domain) \o <<"/", today>>

\* variant: the API key is not looked at
TriggerError_nokey(domain, repo_url, api_key) ==
    IF domain = NoDomain THEN "No domain specified and no org domain found."
    ELSE IF repo_url = "" THEN "repo_url is required."
    ELSE ""

\* the error start_seo_pr_run answers with, "" when it accepts the trigger
TriggerError(domain, repo_url, api_key) ==
    IF domain = NoDomain THEN "No domain specified and no org domain found."
    ELSE IF repo_url = "" THEN "repo_url is required."
    ELSE IF api_key = "" THEN "No Anthropic API key configured."
    ELSE ""

\* dl.save_seo_pr_run(data): one new row, its id the next of the table
save_seo_pr_run(records, data) == Append(records, data)

\* the external calls of one pipeline execution, in order
PipelineCalls == <<"audit", "llm", "git clone", "git push", "gh api">>

\* the status persisted before each call
StatusBefore ==
    <<"auditing", "analyzing", "implementing", "pushing", "verifying">>

\* calls made without await: anthropic.Anthropic(...).messages.create and
\* subprocess.run return only when the call is over.  audit_domain awaits
\* an httpx.AsyncClient.
SyncCalls == {"llm", "git clone", "git push", "gh api"}

NoResponse == [error |-> "", id |-> 0, status |-> "none"]

\* a background task not started yet
Scheduled(run_id, domain) ==
    [run_id |-> run_id, domain |-> domain, pos |-> 0, in_call |-> FALSE,
     ws |-> 0, today |-> "none", branch |-> <<>>]

InitServer ==
    /\ pc = "server"
    /\ PipelineNotRunning
    /\ vd = NotCalled
    /\ ed = NotCalled
    /\ ex = NotCalled
    /\ srv = [pc |-> "serving", records |-> <<>>, tasks |-> <<>>,
              execs |-> <<>>, response |-> NoResponse, thread |-> 0,
              tmp |-> 0, remote |-> {}]

\* POST /api/seo-pr/run.  The handler runs on the event loop.
Trigger ==
    /\ srv.pc = "serving"
    /\ srv.thread = 0
    /\ Len(srv.records) < MaxRuns
    /\ \E req_domain \in Domains \cup {NoDomain} :
       \E org_domain \in {NoDomain, <<"a.com">>} :
       \E repo_url \in {"", "repo"} :
       \E api_key \in {"", "key"} :
       \E domain \in {IF req_domain # NoDomain THEN req_domain ELSE org_domain} :
       \E error \in {TriggerError(domain, repo_url, api_key)} :
       \E run_id \in {Len(srv.records) + 1} :
          srv' =
            IF error # ""
            THEN [srv EXCEPT !.response = [error |-> error, id |-> 0,
                                           status |-> "none"]]
            ELSE [srv EXCEPT
                    !.records = save_seo_pr_run(@,
                        [domain |-> domain, repo_url |-> repo_url,
                         status |-> "pending"]),
                    !.tasks = Append(@, [run_id |-> run_id,
                                         api_key |-> api_key]),
                    !.execs = Append(@, Scheduled(run_id, domain)),
                    !.response = [error |-> "", id |-> run_id,
                                  status |-> "pending"]]
    /\ UNCHANGED <<pipeVars, vd, ed, ex>>

\* a pipeline execution persists its next status and issues its next
\* external call.  A call made without await keeps the event-loop thread
\* until it returns.
IssueCall ==
    /\ srv.pc = "serving"
    /\ srv.thread = 0
    /\ \E k \in DOMAIN srv.execs :
       \E today \in Dates :
        /\ ~srv.execs[k].in_call
        /\ srv.execs[k].pos < Len(PipelineCalls)
        /\ \E call \in {PipelineCalls[srv.execs[k].pos + 1]} :
           \E run_id \in {srv.execs[k].run_id} :
            srv' = [srv EXCEPT
              !.records[run_id].status = StatusBefore[srv.execs[k].pos + 1],
              !.thread = IF call \in SyncCalls THEN k ELSE 0,
              !.tmp = IF call = "git clone" THEN @ + 1 ELSE @,
              !.execs[k] =
                  [@ EXCEPT
                     !.in_call = TRUE,
                     !.ws = IF call = "git clone" THEN srv.tmp + 1 ELSE @,
                     !.today = IF call = "git push" THEN today ELSE @,
                     !.branch = IF call = "git push"
                                THEN branch_name_of(srv.execs[k].domain, today)
                                ELSE @]]
    /\ UNCHANGED <<pipeVars, vd, ed, ex>>

\* the call of an execution returns and the execution goes on (or ends,
\* failed or complete).  After an awaited call the execution resumes when
\* the event-loop thread is free.
CallReturns ==
    /\ srv.pc = "serving"
    /\ \E k \in DOMAIN srv.execs :
       \E ok \in BOOLEAN :
        /\ srv.execs[k].in_call
        /\ srv.thread = IF PipelineCalls[srv.execs[k].pos + 1] \in SyncCalls
                        THEN k ELSE 0
        /\ \E call \in {PipelineCalls[srv.execs[k].pos + 1]} :
           \E run_id \in {srv.execs[k].run_id} :
           \E last \in {~ok \/ srv.execs[k].pos + 1 = Len(PipelineCalls)} :
            srv' = [srv EXCEPT
              !.thread = 0,
              !.remote = IF call = "git push" /\ ok
                         THEN @ \cup {<<srv.execs[k].branch, run_id>>} ELSE @,
              !.records[run_id].status =
                  IF ~ok THEN "failed" ELSE IF last THEN "complete" ELSE @,
              !.execs[k] =
                  [@ EXCEPT !.in_call = FALSE,
                            !.pos = IF last THEN Len(PipelineCalls)
                                    ELSE @ + 1]]
    /\ UNCHANGED <<pipeVars, vd, ed, ex>>

NextServer ==
    \/ Trigger
    \/ IssueCall
    \/ CallReturns

SpecServer == InitServer /\ [][NextServer]_vars

\* ------------------------------------------------------------------------
\* verify_deploy: which check runs and which commit statuses count as the
\* build/deploy check.  Names are sequences of words.
\* ------------------------------------------------------------------------
\* for kw in ["netlify", "deploy", "build", "vercel", "cloudflare"]
CheckKeywords == {"netlify", "deploy", "build", "vercel", "cloudflare"}

\* for kw in ["netlify", "deploy", "build"]
StatusKeywords == {"netlify", "deploy", "build"}

\* the words a check-run name or a status context is made of
Words == CheckKeywords \cup {"Netlify", "Vercel", "ci", "lint"}

\* names of up to two words; <<>> is a missing or empty name
Names ==
    {<<>>} \cup {<<w>> : w \in Words}
           \cup {<<w1, w2>> : w1 \in Words, w2 \in Words}

\* str.lower()
lower(text) ==
    [i \in DOMAIN text |->
        IF text[i] = "Netlify" THEN "netlify"
        ELSE IF text[i] = "Vercel" THEN "vercel"
        ELSE text[i]]

\* any(kw in name or kw in app for kw in [...]) on one check run
is_deploy_check(name, app) ==
    \E kw \in CheckKeywords :
        kw \in Range(lower(name)) \/ kw \in Range(lower(app))

\* any(kw in ctx for kw in [...]) on one commit status
is_deploy_status(ctx) ==
    \E kw \in StatusKeywords : kw \in Range(lower(ctx))

\* what the fallback makes of a recognised status
classify_state(state) ==
    IF state = "success" THEN "success"
    ELSE IF state \in {"failure", "error"} THEN "failed"
    ELSE "pending"

\* a commit is looked up twice: once carrying one check run named `name`,
\* once carrying no check run and one commit status whose context is `name`
InitLookup ==
    /\ pc = "lookup"
    /\ PipelineNotRunning
    /\ \E name \in Names : \E app \in {<<>>, <<"netlify">>} :
       \E state \in {"success", "failure", "error", "pending", ""} :
          vd = [pc |-> "check_runs", name |-> name, app |-> app,
                state |-> state, deploy_check |-> "unset",
                status |-> "unset"]
    /\ ed = NotCalled
    /\ ex = NotCalled
    /\ srv = NotCalled

\* for cr in check_runs: ... deploy_check = cr; break
CheckRunLookup ==
    /\ vd.pc = "check_runs"
    /\ vd' = [vd EXCEPT !.pc = "statuses",
                        !.deploy_check =
                            IF is_deploy_check(vd.name, vd.app)
                            THEN "found" ELSE "none"]
    /\ UNCHANGED <<pipeVars, ed, ex, srv>>

\* if not deploy_check: for st in statuses: ...
StatusLookup ==
    /\ vd.pc = "statuses"
    /\ vd' = [vd EXCEPT !.pc = "looked_up",
                        !.status =
                            IF is_deploy_status(vd.name)
                            THEN classify_state(vd.state)
                            ELSE "unrecognised"]
    /\ UNCHANGED <<pipeVars, ed, ex, srv>>

NextLookup ==
    \/ CheckRunLookup
    \/ StatusLookup

SpecLookup == InitLookup /\ [][NextLookup]_vars

\* ------------------------------------------------------------------------
\* The edit loop of implement_seo_changes (one tier) and of heal_build:
\* for edit in edits: try _apply_edit except: errors.append(...)
\* ------------------------------------------------------------------------
\* the elements a parsed JSON array can hold: an object _apply_edit applies,
\* an object whose file is missing, an object whose search text is not
\* found, and an element that is not an object (a string, a number, null)
EditKinds == {"applies", "file_missing", "anchor_missing", "not_an_object"}

\* the exception _apply_edit(repo_path, edit) raises, NoError when it returns
apply_raises(kind) ==
    IF kind = "applies" THEN NoError
    ELSE IF kind = "file_missing" THEN <<"FileNotFoundError">>
    ELSE IF kind = "anchor_missing" THEN <<"ValueError", "Search text not found">>
    ELSE <<"AttributeError", "no attribute 'get'">>

\* the exception the handler's own edit.get('file_path', '?') raises
handler_raises(kind) ==
    IF kind = "not_an_object"
    THEN <<"AttributeError", "no attribute 'get'">> ELSE NoError

\* the longest edit list the loop of implement_seo_changes / heal_build is
\* run over on its own
MaxListed == 2

EditLists == UNION { [1..n -> EditKinds] : n \in 1..MaxListed }

InitEditLoop ==
    /\ pc = "edit_loop"
    /\ PipelineNotRunning
    /\ vd = NotCalled
    /\ \E caller \in {"implement_seo_changes", "heal_build"} :
       \E edits \in EditLists :
          ed = [pc |-> "loop", caller |-> caller, edits |-> edits, i |-> 1,
                attempted |-> 0, applied |-> 0, errors |-> <<>>,
                ret |-> "none"]
    /\ ex = NotCalled
    /\ srv = NotCalled

\* what comes of an exception that leaves the loop: implement_seo_changes
\* catches it per tier and records the tier with no edit applied;
\* heal_build lets it through to its caller
LoopEscaped(e, caller) ==
    IF caller = "implement_seo_changes"
    THEN [edits_applied |-> 0, errors |-> <<e>>, raised |-> NoError]
    ELSE [edits_applied |-> 0, errors |-> <<>>, raised |-> e]

\* one iteration of the loop
ApplyNextEdit ==
    /\ ed.pc = "loop"
    /\ ed.i <= Len(ed.edits)
    /\ \E kind \in {ed.edits[ed.i]} :
         ed' = IF apply_raises(kind) = NoError
               THEN [ed EXCEPT !.i = @ + 1, !.attempted = @ + 1,
                               !.applied = @ + 1]
               ELSE IF handler_raises(kind) = NoError
               THEN [ed EXCEPT !.i = @ + 1, !.attempted = @ + 1,
                               !.errors = Append(@, apply_raises(kind))]
               ELSE [ed EXCEPT !.pc = "returned", !.attempted = @ + 1,
                               !.ret = LoopEscaped(handler_raises(kind),
                                                   ed.caller)]
    /\ UNCHANGED <<pipeVars, vd, ex, srv>>

\* the list is exhausted: the counts are handed on
EditLoopDone ==
    /\ ed.pc = "loop"
    /\ ed.i > Len(ed.edits)
    /\ ed' = [ed EXCEPT !.pc = "returned",
                        !.ret = [edits_applied |-> ed.applied,
                                 errors |-> ed.errors, raised |-> NoError]]
    /\ UNCHANGED <<pipeVars, vd, ex, srv>>

NextEditLoop ==
    \/ ApplyNextEdit
    \/ EditLoopDone

SpecEditLoop == InitEditLoop /\ [][NextEditLoop]_vars

\* ------------------------------------------------------------------------
\* The persistence callback: run_seo_pipeline._update around update_fn of
\* _run_pipeline_bg, followed along the update sequences of the pipeline
\* with a stored row that takes an update only when update_fn succeeds.
\* ------------------------------------------------------------------------
\* the stored row when the background task starts
StoredRun ==
    [status |-> "pending", pr_url |-> "", changes_made |-> 0,
     heal_attempts |-> 0]

\* paths of run_seo_pipeline: the updates issued in order (the fields
\* followed here) and the result returned at the end
UpdatePaths ==
    { \* the audit reports an error
      [updates |-> <<[status |-> "auditing"], [status |-> "failed"]>>,
       result |-> [status |-> "failed", pr_url |-> "", changes_made |-> 0]],
      \* nothing could be applied
      [updates |-> <<[status |-> "auditing"], [status |-> "analyzing"],
                     [status |-> "implementing"],
                     [status |-> "complete", changes_made |-> 0]>>,
       result |-> [status |-> "complete", pr_url |-> "", changes_made |-> 0]],
      \* the push fails
      [updates |-> <<[status |-> "auditing"], [status |-> "analyzing"],
                     [status |-> "implementing"],
                     [status |-> "pushing", changes_made |-> 2],
                     [status |-> "failed", pr_url |-> "",
                      changes_made |-> 1]>>,
       result |-> [status |-> "failed", pr_url |-> "", changes_made |-> 1]],
      \* the deploy is verified
      [updates |-> <<[status |-> "auditing"], [status |-> "analyzing"],
                     [status |-> "implementing"],
                     [status |-> "pushing", changes_made |-> 1],
                     [status |-> "verifying", pr_url |-> "url",
                      changes_made |-> 1],
                     [status |-> "complete"]>>,
       result |-> [status |-> "complete", pr_url |-> "url",
                   changes_made |-> 1]],
      \* the deploy fails and the first heal attempt repairs it
      [updates |-> <<[status |-> "auditing"], [status |-> "analyzing"],
                     [status |-> "implementing"],
                     [status |-> "pushing", changes_made |-> 1],
                     [status |-> "verifying", pr_url |-> "url",
                      changes_made |-> 1],
                     [status |-> "healing"], [heal_attempts |-> 1],
                     [status |-> "verifying"], [status |-> "complete"]>>,
       result |-> [status |-> "complete", pr_url |-> "url",
                   changes_made |-> 1]] }

\* the exceptions update_fn may end with; NoError when it returns
UpdateFnRaises == {NoError, <<"OperationalError">>}

\* variant: _update without its try/except
_update_uncaught(e) == e

\* _update: try: await update_fn(updates) except Exception as e:
\* log.warning(...).  What reaches the statement that called _update.
_update_lets_through(e) == NoError

\* bg_dl.update_seo_pr_run(run_id, updates) and commit
update_seo_pr_run(row, updates) == Merge(row, updates)

InitPersist ==
    /\ pc = "persist"
    /\ PipelineNotRunning
    /\ vd = NotCalled
    /\ ed = NotCalled
    /\ ex = NotCalled
    /\ \E path \in UpdatePaths :
          srv = [pc |-> "running", path |-> path, issued |-> 0,
                 failed_updates |-> 0, row |-> StoredRun,
                 result |-> [status |-> "complete", pr_url |-> "",
                             changes_made |-> 0]]

\* the next update of the path is issued; update_fn stores it or raises.
\* An exception that reached the pipeline would end it in its except
\* clause, with the result failed.
IssueUpdate ==
    /\ srv.pc = "running"
    /\ srv.issued < Len(srv.path.updates)
    /\ \E e \in UpdateFnRaises :
       \E updates \in {srv.path.updates[srv.issued + 1]} :
       \E through \in {_update_lets_through(e)} :
          srv' = [srv EXCEPT
                    !.issued = @ + 1,
                    !.failed_updates = IF e = NoError THEN @ ELSE @ + 1,
                    !.row = IF e = NoError
                            THEN update_seo_pr_run(@, updates) ELSE @,
                    !.pc = IF through = NoError THEN @ ELSE "returned",
                    !.result = IF through = NoError THEN @
                               ELSE [@ EXCEPT !.status = "failed"]]
    /\ UNCHANGED <<pipeVars, vd, ed, ex>>

\* return result, after the last update of the path
PipelineReturns ==
    /\ srv.pc = "running"
    /\ srv.issued = Len(srv.path.updates)
    /\ srv' = [srv EXCEPT !.pc = "returned", !.result = srv.path.result]
    /\ UNCHANGED <<pipeVars, vd, ed, ex>>

NextPersist ==
    \/ IssueUpdate
    \/ PipelineReturns

SpecPersist == InitPersist /\ [][NextPersist]_vars

\* ------------------------------------------------------------------------
\* Properties
\* ------------------------------------------------------------------------
Phases == <<"pending", "auditing", "analyzing", "implementing", "pushing",
            "verifying", "healing">>

Terminal == {"complete", "failed"}

\* the status values written before the terminal one (all of them while
\* the Run is in flight)
InFlight(log) ==
    IF log # <<>> /\ log[Len(log)] \in Terminal
    THEN SubSeq(log, 1, Len(log) - 1) ELSE log

\* the longest prefix of log that walks the phase order from "pending"
\* without skipping a phase
RECURSIVE Walked(_, _)
Walked(log, i) ==
    IF i <= Len(log) /\ i <= Len(Phases) /\ log[i] = Phases[i]
    THEN Walked(log, i + 1) ELSE i - 1

\* C1 as stated: the status values written form pending, auditing,
\* analyzing, implementing, pushing, verifying, healing*, then at most one
\* of complete/failed; no earlier status is written after a later one and
\* no phase is skipped except by the jump to the terminal status.
C1_StatusForwardOnly ==
    LET flight == InFlight(statusLog)
        n == Walked(flight, 1)
    IN  /\ \A i \in DOMAIN flight : flight[i] \notin Terminal
        /\ n >= 1
        /\ \A i \in (n + 1)..Len(flight) :
              flight[i] = "healing" /\ n = Len(Phases)

\* C1 (amended): the status values written form pending, auditing,
\* analyzing, implementing, pushing, verifying, healing, then "verifying"
\* written again once per heal attempt that pushed a fix (at most 2 times),
\* then at most one of complete/failed; up to "healing" no phase is skipped
\* except by the jump to the terminal status, and nothing follows the
\* terminal status.
C1_StatusOrderWithReverify ==
    LET flight == InFlight(statusLog)
        n == Walked(flight, 1)
    IN  /\ \A i \in DOMAIN flight : flight[i] \notin Terminal
        /\ n >= 1
        /\ \A i \in (n + 1)..Len(flight) :
              flight[i] = "verifying" /\ n = Len(Phases)
        /\ Len(flight) - n <= 2
        /\ Len(flight) - n <= healCalls

\* a Run that healed: "verifying" was written after "healing" and the Run
\* completed
C1_Witness ==
    /\ pc = "done"
    /\ statusLog[Len(statusLog)] = "complete"
    /\ \E i \in 1..(Len(statusLog) - 1) :
          statusLog[i] = "healing" /\ statusLog[i + 1] = "verifying"

\* C2: the persisted heal_attempts starts at 0, never decreases, never
\* exceeds 2, and heal_build is executed at most 2 times per Run.
C2_HealAttemptsBounded ==
    /\ run.heal_attempts = 0
    /\ [](run.heal_attempts \in 0..2 /\ healCalls \in 0..2)
    /\ [][run'.heal_attempts >= run.heal_attempts]_vars

\* a Run that used both heal attempts
C2_Witness ==
    /\ pc = "done"
    /\ run.heal_attempts = 2
    /\ healCalls = 2

\* the version-control operations a Run may issue
AllowedVcs ==
    {"git clone", "git checkout -b", "git status", "git add", "git commit",
     "git push run branch", "gh label create", "gh pr create",
     "gh pr create again", "gh api"}

\* calls to the other collaborators (auditor, LLM service)
NonVcs == {"audit", "llm_plan", "llm_edit", "llm_heal", "llm_readme"}

\* C3: on every path of the SEO pipeline, the heal loop and the README
\* pipeline, the version-control operations issued are only clone, branch
\* creation, status, stage, commit, push of the run's own branch, label
\* creation, review-request creation and read-only queries; nothing ever
\* updates the base branch.
C3_OnlyOwnBranchOperations ==
    (calls \ NonVcs) \subseteq AllowedVcs

\* C4: when run_seo_pipeline has returned after a workspace directory was
\* created (clone errors and timeouts included), the directory no longer
\* exists.
C4_WorkspaceRemovedOnReturn ==
    (pc = "done" /\ ws # "none") => ws = "removed"

\* C5: when the first verification fails and no later verification returns
\* success, no_checks or timeout, a Run that ends without an unexpected
\* exception ends complete with deploy_status failed, heal_attempts 2 and
\* a non-empty error.
C5_ExhaustedEndsComplete ==
    ( /\ pc = "done"
      /\ ~excepted
      /\ verifyLog # <<>>
      /\ \A i \in DOMAIN verifyLog : verifyLog[i] = "failed" )
    => /\ run.status = "complete"
       /\ result.status = "complete"
       /\ run.deploy_status = "failed"
       /\ run.heal_attempts = 2
       /\ run.error # NoError
       /\ result.error # NoError

\* a Run whose two heal attempts both pushed a fix that still failed
C5_Witness ==
    /\ pc = "done"
    /\ ~excepted
    /\ verifyLog = <<"failed", "failed", "failed">>
    /\ healCalls = 2

\* C6: when heal attempt k pushes a fix and the re-verification returns
\* success, no_checks or timeout, the Run ends complete with deploy_status
\* healed and heal_attempts k; a re-verification that returns failed moves
\* the loop to attempt k + 1, or to the exhaustion exit when k is the last.
C6_HealedEndsComplete ==
    /\ []( ( /\ pc = "done"
             /\ ~excepted
             /\ Len(verifyLog) >= 2
             /\ verifyLog[Len(verifyLog)] # "failed" )
           => /\ run.status = "complete"
              /\ result.status = "complete"
              /\ run.deploy_status = "healed"
              /\ run.heal_attempts = healCalls
              /\ healCalls \in 1..2
              /\ Len(verifyLog) <= healCalls + 1 )
    /\ [][ (pc = "reverify" /\ verifyLog' = Append(verifyLog, "failed"))
           => IF healCalls < 2
              THEN pc' = "heal" /\ attempt' = healCalls + 1
                   /\ run'.heal_attempts = healCalls
              ELSE pc' = "done" /\ run'.deploy_status = "failed" ]_vars

\* the first heal attempt pushed a fix and the deploy then passed
C6_Witness ==
    /\ pc = "done"
    /\ verifyLog = <<"failed", "success">>
    /\ run.deploy_status = "healed"
    /\ run.heal_attempts = 1

C8_NoCommitEndsComplete ==
    ( /\ pc = "done"
      /\ ~excepted
      /\ repo_path
      /\ commits = <<>> )
    => /\ run.status = "complete"
       /\ result.status = "complete"
       /\ run.changes_made = 0
       /\ run.error # NoError
       /\ calls \cap {"git push run branch", "git push base branch",
                      "gh pr create"} = {}

\* C9: when an LLM answer fails resilient parsing (the plan, or an edit
\* list of the Implementer or the Healer), the Run ends failed and its
\* error carries the raw text.
C9_ParseFailureFailsRun ==
    (pc = "done" /\ parseFailed # {})
    => /\ run.status = "failed"
       /\ result.status = "failed"
       /\ "raw_text" \in Range(run.error)

\* C10: once an LLM call has raised (Planner, Implementer or Healer) or the
\* Auditor has reported an error, the Run has ended failed: no later phase
\* runs.
C10_CollaboratorFailureFailsRun ==
    (llmRaised # {} \/ auditError)
    => /\ pc = "done"
       /\ run.status = "failed"
       /\ result.status = "failed"

\* C11: when the Planner's answer parses to a plan whose tiers hold zero
\* changes in total, the Run ends there: status complete, changes_made 0,
\* pr_url empty, and no clone, edit, commit, push, review request or deploy
\* verification has been issued (the only calls are the audit and the
\* Planner's).
C11_ZeroChangesCompletes ==
    [][ ( /\ pc = "analyze"
          /\ ~excepted'
          /\ plan'.error = NoError
          /\ SumSeq([i \in DOMAIN plan'.tiers |-> plan'.tiers[i].changes]) = 0 )
        => /\ pc' = "done"
           /\ run'.status = "complete"
           /\ result'.status = "complete"
           /\ run'.changes_made = 0
           /\ result'.changes_made = 0
           /\ run'.pr_url = ""
           /\ result'.pr_url = ""
           /\ calls' = {"audit", "llm_plan"}
           /\ ws' = "none"
           /\ verifyLog' = <<>> ]_vars

\* a Run that ended on a plan of one tier without changes
C11_Witness ==
    /\ pc = "done"
    /\ plan.error = NoError
    /\ Len(plan.tiers) = 1
    /\ plan.tiers[1].changes = 0
    /\ run.status = "complete"
    /\ run.error = <<"No SEO improvements identified">>

\* C12: when the review request was opened (its URL was persisted with
\* status verifying) and the first verification returns no_checks or
\* timeout, the Run ends complete with that outcome as deploy_status, a
\* non-empty pr_url in the record and in the result, and heal_attempts 0,
\* and no heal attempt has been executed.
C12_UnverifiedCompletes ==
    ( /\ Len(verifyLog) >= 1
      /\ verifyLog[1] \in {"no_checks", "timeout"}
      /\ "gh pr create" \in calls
      /\ result.pr_url # "" )
    => /\ pc = "done"
       /\ verifyLog \in {<<"no_checks">>, <<"timeout">>}
       /\ run.status = "complete"
       /\ result.status = "complete"
       /\ run.deploy_status = verifyLog[1]
       /\ run.pr_url = result.pr_url
       /\ run.heal_attempts = 0
       /\ healCalls = 0
       /\ "llm_heal" \notin calls

\* the first verification timed out
C12_Witness ==
    /\ pc = "done"
    /\ verifyLog = <<"timeout">>
    /\ run.deploy_status = "timeout"
    /\ result.pr_url # ""

\* C13: when the audit result carries an error, the Run has ended failed
\* with an error naming the audit failure; the statuses written are
\* auditing then failed, and the audit is the only call made (no Planner
\* call, clone, edit, push or review request).
C13_AuditErrorFailsRun ==
    auditError
    => /\ pc = "done"
       /\ run.status = "failed"
       /\ result.status = "failed"
       /\ run.error # NoError
       /\ Head(run.error) = "Audit failed: "
       /\ result.error = run.error
       /\ statusLog = <<"pending", "auditing", "failed">>
       /\ calls = {"audit"}
       /\ ws = "none"

\* the auditor reported an error
C13_Witness ==
    /\ auditError
    /\ pc = "done"
    /\ run.status = "failed"

\* the messages of the exceptions the pipeline's phases raise
ExceptionMessages ==
    { <<"audit exception">>, <<"plan structure exception">>,
      <<"git clone failed: ", "stderr">>,
      <<"Failed to create branch: ", "stderr">>, <<"TimeoutExpired">> }
    \cup ({SummaryRaises[shape] : shape \in AuditShapes} \ {NoError})

\* C14: an exception raised inside run_seo_pipeline is caught by the
\* top-level handler: the function returns (the exception does not reach
\* the caller) with status failed, the exception's message as the error
\* and completed_at set.
C14_ExceptionCaught ==
    excepted
    => /\ pc = "done"
       /\ result.status = "failed"
       /\ run.status = "failed"
       /\ result.error \in ExceptionMessages
       /\ run.error = result.error
       /\ run.completed_at
       /\ statusLog[Len(statusLog)] = "failed"

\* an exception escaped a heal attempt
C14_Witness ==
    /\ excepted
    /\ pc = "done"
    /\ healCalls >= 1
    /\ run.error = <<"TimeoutExpired">>

\* C15: when the push of the run's branch fails while publishing, the Run
\* ends failed with an error carrying the push error and an empty pr_url,
\* and neither review-request creation nor label creation nor deploy
\* verification has been attempted.
C15_PushFailureFailsRun ==
    [][ ( /\ pc = "commit"
          /\ GitPush \in calls'
          /\ pc' # "pr" )
        => /\ pc' = "done"
           /\ run'.status = "failed"
           /\ result'.status = "failed"
           /\ run'.error \in {<<"Push failed: ", "stderr">>, <<"TimeoutExpired">>}
           /\ result'.error = run'.error
           /\ run'.pr_url = ""
           /\ result'.pr_url = ""
           /\ calls' \cap {"gh pr create", "gh label create", "gh api"} = {}
           /\ verifyLog' = <<>> ]_vars

\* the push was rejected
C15_Witness ==
    /\ pc = "done"
    /\ run.error = <<"Push failed: ", "stderr">>
    /\ commits # <<>>
    /\ healCalls = 0

\* C16: every invocation of verify_deploy returns, with one of success,
\* failed, no_checks and timeout, whatever the APIs answer; a pass of the
\* poll loop starts only while less than max_wait seconds have elapsed, so
\* there are at most max_wait / poll_interval passes.
C16_VerifyDeployBounded ==
    /\ [](vd.pc = "returned" <=> vd.ret \in VerifyOutcomes)
    /\ [](vd.polls * poll_interval <= max_wait)
    /\ [][vd'.polls # vd.polls
            => vd.now < max_wait /\ vd'.polls = vd.polls + 1]_vars
    /\ <>(vd.pc = "returned")

\* the check run stayed in progress until the ceiling was reached
C16_Witness ==
    /\ vd.pc = "returned"
    /\ vd.ret = "timeout"
    /\ vd.last_status = "in_progress"
    /\ vd.now >= max_wait
    /\ vd.polls * poll_interval = max_wait

\* C17: when every external call returns or raises, a started Run reaches
\* the end of run_seo_pipeline; the returned status is then complete or
\* failed and the persisted status is that same value.
C17_RunTerminates ==
    /\ <>(pc = "done")
    /\ [](pc = "done" => /\ result.status \in Terminal
                         /\ run.status = result.status
                         /\ statusLog[Len(statusLog)] = result.status)

\* a Run that went through the whole heal loop and returned
C17_Witness ==
    /\ pc = "done"
    /\ healCalls = max_heal_attempts
    /\ Len(verifyLog) = max_heal_attempts + 1
    /\ result.status = "complete"
    /\ run.status = "complete"

\* the edit named the target file, its search text occurred exactly once in
\* the file and not inside the replacement, and it has been applied n times
EditedOnce(n) ==
    /\ ed.pc = "edit"
    /\ Len(ed.results) = n
    /\ ed.edit.file_path = "f"
    /\ ed.edit.search # <<>>
    /\ Cardinality(Occurrences(ed.orig.f, ed.edit.search)) = 1
    /\ ~contains(ed.edit.replace, ed.edit.search)

\* the content around the one occurrence of the search text
EditPrefix == SubSeq(ed.orig.f, 1, SetMin(Occurrences(ed.orig.f, ed.edit.search)) - 1)

EditSuffix ==
    SubSeq(ed.orig.f,
           SetMin(Occurrences(ed.orig.f, ed.edit.search)) + Len(ed.edit.search),
           Len(ed.orig.f))

\* the replacement is not empty, search and replacement share no character,
\* and neither has a character in the rest of the content
EditApart ==
    /\ ed.edit.replace # <<>>
    /\ Range(ed.edit.search) \cap Range(ed.edit.replace) = {}
    /\ (Range(ed.edit.search) \cup Range(ed.edit.replace))
           \cap (Range(EditPrefix) \cup Range(EditSuffix)) = {}

\* C18 as stated: an edit applied to content with exactly one occurrence of
\* the search text, whose replacement does not contain the search text,
\* leaves zero occurrences of the search text and exactly one of the
\* replacement
C18_RoundTrip ==
    EditedOnce(1) =>
        /\ Cardinality(Occurrences(ed.files.f, ed.edit.search)) = 0
        /\ Cardinality(Occurrences(ed.files.f, ed.edit.replace)) = 1

\* C18 amended: such an edit succeeds and puts the replacement in the place
\* of the one occurrence, the content before and after it kept; zero
\* occurrences of the search text and exactly one of the replacement follow
\* when the replacement is not empty, shares no character with the search
\* text, and neither has a character in the rest of the content
C18_ReplacesTheOccurrence ==
    EditedOnce(1) =>
        /\ ed.results[1] = "none"
        /\ ed.files.f = EditPrefix \o ed.edit.replace \o EditSuffix
        /\ EditApart =>
            /\ Cardinality(Occurrences(ed.files.f, ed.edit.search)) = 0
            /\ Cardinality(Occurrences(ed.files.f, ed.edit.replace)) = 1

C18_Witness ==
    /\ EditedOnce(1)
    /\ EditApart
    /\ EditPrefix # <<>>
    /\ Len(ed.edit.replace) # Len(ed.edit.search)
    /\ ed.files.f # ed.orig.f

C20_FailureWritesNothing ==
    (ed.pc = "edit" /\ ed.results # <<>>) =>
        /\ ed.results[Len(ed.results)] # "none" => ed.files = ed.prev
        /\ DOMAIN ed.files = DOMAIN ed.prev
        /\ \A name \in DOMAIN ed.files :
              name # ed.edit.file_path => ed.files[name] = ed.prev[name]
        /\ (ed.edit.file_path = "" \/ ed.edit.search = <<>>)
              => ed.results[Len(ed.results)] = "Missing file_path or search text"
        /\ (ed.edit.file_path = "h" /\ ed.edit.search # <<>>)
              => ed.results[Len(ed.results)] = "File not found"
        /\ (ed.edit.file_path = "f" /\ ed.edit.search # <<>>
              /\ ~AnchorFound(ed.prev.f, ed.edit.search))
              => ed.results[Len(ed.results)] = "Search text not found"

C20_Witness ==
    /\ ed.pc = "edit"
    /\ ed.results = <<"none", "Search text not found">>
    /\ ed.prev.f # <<>>
    /\ ed.prev.f # ed.orig.f

\* C21: an edit on an existing file succeeds only if its search text is not
\* empty and occurs verbatim or, normalised, matches within exactly one
\* line; when it does not occur verbatim and its normalised form is empty
\* or matches no line or several lines, the edit fails with "Search text
\* not found"
C21_SucceedsOnlyOnOneLine ==
    (ed.pc = "edit" /\ Len(ed.results) = 1 /\ ed.edit.file_path = "f") =>
        /\ ed.results[1] = "none" =>
            /\ ed.edit.search # <<>>
            /\ \/ contains(ed.orig.f, ed.edit.search)
               \/ /\ normalise(ed.edit.search) # <<>>
                  /\ Cardinality(LenientMatches(split_lines(ed.orig.f),
                                                ed.edit.search)) = 1
        /\ (/\ ed.edit.search # <<>>
            /\ ~contains(ed.orig.f, ed.edit.search)
            /\ \/ normalise(ed.edit.search) = <<>>
               \/ Cardinality(LenientMatches(split_lines(ed.orig.f),
                                             ed.edit.search)) # 1)
              => ed.results[1] = "Search text not found"

\* the value whose text was handed to the extractor
Expected == [kind |-> ex.kind, empty |-> (ex.inner = <<>>)]

\* the prose has none of the delimiters the extractor looks for and does not
\* open a code fence
PlainNoise ==
    /\ "fence" \notin Range(ex.before) \cup Range(ex.after)
    /\ IF ex.kind = "object"
       THEN Range(ex.before) \cup Range(ex.after) \subseteq NoiseTokens \ {"{", "}"}
       ELSE Range(ex.before) \cup Range(ex.after) \subseteq NoiseTokens \ {"[", "]"}

\* C22 as stated: the bare text of a JSON value, the text in a json code
\* fence and the text surrounded by prose all parse to that value
C22_ResilientParse ==
    ex.pc = "parsed" =>
        /\ ex.bare = Expected
        /\ ex.fenced = Expected
        /\ ex.noisy = Expected

\* C22 amended: the bare and the fenced text always parse to the value; the
\* text surrounded by prose parses to it when the prose has no brace (for
\* _extract_edits: no square bracket) and no code fence
C22_ResilientParsePlainNoise ==
    ex.pc = "parsed" =>
        /\ ex.bare = Expected
        /\ ex.fenced = Expected
        /\ PlainNoise => ex.noisy = Expected

C22_Witness ==
    /\ ex.pc = "parsed"
    /\ PlainNoise
    /\ ex.before # <<>>
    /\ ex.after # <<>>
    /\ ex.inner # <<>>
    /\ ex.noisy = Expected
    /\ ex.fenced = ex.bare

\* the audit result lacks a field or holds a malformed one
MalformedAudit == audit_result \in AuditShapes \ {"complete"}

\* C27: a missing or malformed field of the audit result never by itself
\* fails the Run: when the analysis of such a result ends the Run failed,
\* the LLM call raised, its answer did not parse, or the plan was malformed
C27_MalformedAuditNotFatal ==
    [][(pc = "analyze" /\ MalformedAudit /\ result'.status = "failed")
        => \/ "plan" \in llmRaised' \cup parseFailed'
           \/ result'.error = <<"plan structure exception">>]_vars

\* C26: completed_at is written only by an update that also sets the status
\* to complete or failed, so whenever completed_at is set the persisted
\* status is terminal
C26_CompletedOnlyTerminal ==
    /\ [](run.completed_at => run.status \in Terminal)
    /\ [][(run'.completed_at /\ ~run.completed_at)
            => /\ run'.status \in Terminal
               /\ Len(statusLog') > Len(statusLog)
               /\ statusLog'[Len(statusLog')] = run'.status]_vars
    /\ [][run.completed_at => run' = run]_vars

C26_Witness ==
    /\ run.completed_at
    /\ run.status = "complete"
    /\ run.deploy_status = "healed"

\* the tiers with an applied edit that changed a file: their edits are in a
\* commit or still uncommitted in the workspace
TiersWithEdits == tree \cup UNION { commits[i].edits : i \in DOMAIN commits }

\* C28: after implement and publish, every tier with an applied edit has
\* exactly one commit labelled with its name and holding that tier's edits,
\* and a tier without one has no commit labelled with its name
C28_OneCommitPerTier ==
    pc = "verify" =>
        /\ \A i \in DOMAIN commits : commits[i].edits = {commits[i].label}
        /\ \A t \in TiersWithEdits :
              Cardinality({ i \in DOMAIN commits : commits[i].label = t }) = 1

\* C29: verify_deploy is invoked again only directly after a heal attempt
\* that applied an edit, committed and pushed; an attempt that did not is
\* followed by the next attempt or the end of the Run; verify_deploy runs
\* at most three times per Run
C29_ReverifyOnlyAfterPushedFix ==
    /\ [][pc' = "reverify"
            => /\ pc = "heal"
               /\ heal_result'.healed
               /\ heal_result'.edits_applied >= 1
               /\ heal_result'.error = NoError
               /\ Len(commits') = Len(commits) + 1
               /\ commits'[Len(commits')].label = "fix"
               /\ GitPush \in calls']_vars
    /\ [][(pc = "heal" /\ ~heal_result'.healed) => pc' \in {"heal", "done"}]_vars
    /\ [][(Len(verifyLog') > Len(verifyLog) /\ verifyLog # <<>>)
            => pc = "reverify"]_vars
    /\ [](Len(verifyLog) <= 3)

C29_Witness ==
    /\ Len(verifyLog) = 3
    /\ healCalls = 2
    /\ heal_result.healed
    /\ Len(commits) >= 3

OtherRunCanStep(a, b) ==
    (/\ a # b
     /\ srv.execs[a].in_call
     /\ ~srv.execs[b].in_call
     /\ srv.execs[b].pos < Len(PipelineCalls))
    => srv.thread = 0

C23_CallBlocksOnlyItsRun ==
    srv.pc = "serving" =>
        \A a \in DOMAIN srv.execs : \A b \in DOMAIN srv.execs :
            OtherRunCanStep(a, b)

\* C24: the branch name depends on the cleaned domain and the calendar
\* date only: two Runs with the same cleaned domain and the same date have
\* the same branch name and their pushes land on that one remote branch.
\* Workspace directories and Run records are per Run, and a step of one
\* Run changes no other Run's execution or record.
SameDomainAndDay(a, b) ==
    /\ srv.execs[a].today # "none"
    /\ srv.execs[a].today = srv.execs[b].today
    /\ clean_domain(srv.execs[a].domain) = clean_domain(srv.execs[b].domain)

RunsApart(a, b) ==
    /\ srv.execs[a].run_id # srv.execs[b].run_id
    /\ srv.execs[a].ws # 0 => srv.execs[a].ws # srv.execs[b].ws
    /\ SameDomainAndDay(a, b) => srv.execs[a].branch = srv.execs[b].branch
    /\ (/\ srv.execs[a].today # "none"
        /\ srv.execs[b].today # "none"
        /\ ~SameDomainAndDay(a, b))
       => srv.execs[a].branch # srv.execs[b].branch

StepOfOneRun(k) ==
    srv'.execs[k] # srv.execs[k] =>
        \A j \in DOMAIN srv.execs \ {k} :
            /\ srv'.execs[j] = srv.execs[j]
            /\ srv'.records[srv.execs[j].run_id]
                 = srv.records[srv.execs[j].run_id]

C24_BranchIsTheOnlySharedState ==
    /\ [](srv.pc = "serving" =>
            /\ \A a \in DOMAIN srv.execs : \A b \in DOMAIN srv.execs \ {a} :
                   RunsApart(a, b)
            /\ \A push \in srv.remote :
                   push[1] = srv.execs[push[2]].branch)
    /\ [][srv.pc = "serving" =>
            \A k \in DOMAIN srv.execs : StepOfOneRun(k)]_vars

\* two Runs triggered with differently written domains pushed to one branch
C24_Witness ==
    /\ srv.pc = "serving"
    /\ \E p \in srv.remote : \E q \in srv.remote :
        /\ p[1] = q[1]
        /\ p[2] # q[2]
        /\ srv.execs[p[2]].domain # srv.execs[q[2]].domain

\* C25: an accepted trigger adds exactly one Run record, with status
\* pending, schedules exactly one pipeline execution for it and answers
\* with the Run's id and status pending, before any pipeline phase has
\* begun.  A trigger rejected for a missing domain, an empty repo_url or a
\* missing API key adds no Run record and schedules no pipeline.
Accepted ==
    /\ Len(srv'.records) = Len(srv.records) + 1
    /\ srv'.records[Len(srv'.records)].status = "pending"
    /\ SubSeq(srv'.records, 1, Len(srv.records)) = srv.records
    /\ srv'.tasks = Append(srv.tasks, srv'.tasks[Len(srv'.tasks)])
    /\ srv'.tasks[Len(srv'.tasks)].run_id = Len(srv'.records)
    /\ srv'.execs = Append(srv.execs,
                           Scheduled(Len(srv'.records),
                                     srv'.records[Len(srv'.records)].domain))
    /\ srv'.response = [error |-> "", id |-> Len(srv'.records),
                        status |-> "pending"]

Rejected ==
    /\ srv'.records = srv.records
    /\ srv'.tasks = srv.tasks
    /\ srv'.execs = srv.execs

C25_TriggerCreatesOneRun ==
    /\ [][(srv.pc = "serving" /\ Len(srv'.records) # Len(srv.records))
            => Accepted]_vars
    /\ [][(srv.pc = "serving" /\ srv'.response # srv.response
             /\ srv'.response.error # "")
            => Rejected]_vars
    /\ [][(srv.pc = "serving" /\ srv'.tasks # srv.tasks)
            => Len(srv'.records) # Len(srv.records)]_vars
    /\ [](srv.pc = "serving" =>
            /\ Len(srv.tasks) = Len(srv.records)
            /\ \A i \in DOMAIN srv.records :
                /\ srv.records[i].domain # NoDomain
                /\ srv.records[i].repo_url # ""
                /\ srv.tasks[i].api_key # "")

\* the second accepted trigger has been answered and no phase of its Run's
\* pipeline has begun
C25_Witness ==
    /\ srv.pc = "serving"
    /\ Len(srv.records) = 2
    /\ srv.response = [error |-> "", id |-> 2, status |-> "pending"]
    /\ srv.execs[2].pos = 0
    /\ ~srv.execs[2].in_call
    /\ srv.records[2].status = "pending"

\* C31: the commit-status fallback uses the same keyword match as the
\* check-run lookup: whenever a keyword in a name makes the check run of
\* that name count as the build/deploy check, a commit status whose context
\* is that name is recognised and classified success, failed or pending.
C31_SameKeywordMatch ==
    (/\ vd.pc = "looked_up"
     /\ is_deploy_check(vd.name, <<>>))
    => vd.status \in {"success", "failed", "pending"}

\* C32: review-request creation is attempted at most twice per Run, the
\* second time only after a first failure and one label-creation call; when
\* creation finally fails (no review-request URL comes back), the Run ends
\* failed with the error recorded, pr_url empty and changes_made at the
\* non-zero count of committed changes.
CreationFailed ==
    /\ pc = "pr"
    /\ result'.pr_url = ""

C32_CreationRetriedOnceThenFails ==
    [][/\ "gh pr create again" \in calls'
            => {"gh pr create", "gh label create"} \subseteq calls'
       /\ CreationFailed
            => /\ pc' = "done"
               /\ run'.status = "failed"
               /\ result'.status = "failed"
               /\ run'.error # NoError
               /\ run'.pr_url = ""
               /\ run'.changes_made > 0]_vars

\* C33: within one edit list (a tier's or a heal attempt's) a failing edit
\* does not keep later edits from being applied: when the loop is over
\* every edit of the list has been attempted, every failure is in the
\* errors list, and edits_applied is the number of edits that succeeded.
Succeeding(edits) == {j \in DOMAIN edits : apply_raises(edits[j]) = NoError}

C33_FailedEditDoesNotAbortList ==
    (ed.pc = "returned" /\ "edits" \in DOMAIN ed /\ "attempted" \in DOMAIN ed)
    => /\ ed.attempted = Len(ed.edits)
       /\ ed.ret.raised = NoError
       /\ Len(ed.ret.errors)
            = Len(ed.edits) - Cardinality(Succeeding(ed.edits))
       /\ ed.ret.edits_applied = Cardinality(Succeeding(ed.edits))

\* C34: the status healing is persisted at most once per Run, and that
\* directly after the first verification reported a failed deploy; a heal
\* attempt that follows a failed re-verification runs with the persisted
\* status still verifying and deploy_status still pending.
TimesHealing == Cardinality({i \in DOMAIN statusLog : statusLog[i] = "healing"})

C34_HealingPersistedOnce ==
    /\ [](TimesHealing <= 1)
    /\ [][(statusLog' # statusLog
             /\ statusLog'[Len(statusLog')] = "healing")
            => /\ pc = "verify"
               /\ verifyLog' = <<"failed">>
               /\ pc' = "heal"]_vars
    /\ []((pc = "heal" /\ Len(verifyLog) >= 2)
            => /\ run.status = "verifying"
               /\ run.deploy_status = "pending"
               /\ statusLog[Len(statusLog)] = "verifying")

\* the second heal attempt is about to run after a failed re-verification
C34_Witness ==
    /\ pc = "heal"
    /\ attempt = 2
    /\ verifyLog = <<"failed", "failed">>
    /\ run.status = "verifying"
    /\ run.deploy_status = "pending"
    /\ run.heal_attempts = 1
    /\ TimesHealing = 1

\* C35: no push issued by a Run, at publish or in a heal attempt, targets
\* the base branch: every push names the run's derived branch, and when
\* the base branch bears that very name, branch creation fails and the Run
\* ends failed before any push.
C35_NoPushToBaseBranch ==
    /\ "git push base branch" \notin calls
    /\ baseIsBranch => pc \in {"start", "audit", "analyze", "clone",
                               "implement", "branch", "done"}
    /\ (baseIsBranch /\ pc = "done" /\ "git checkout -b" \in calls)
         => /\ run.status = "failed"
            /\ result.status = "failed"
            /\ excepted
            /\ calls \cap {"git push run branch", "git commit"} = {}

\* the derived name is the base branch's and branch creation has failed
C35_Witness ==
    /\ baseIsBranch
    /\ pc = "done"
    /\ "git checkout -b" \in calls
    /\ run.status = "failed"
    /\ run.error = <<"Failed to create branch: ", "stderr">>

\* C36: changes_made is first persisted, with status pushing, as the number
\* of edits applied; the publish step overwrites it with the sum of the
\* planned changes of the tiers whose commit succeeded.  The two counts are
\* unrelated, so the persisted value can go down (or up) within a Run.
EditsApplied ==
    SumSeq([i \in DOMAIN tier_results |-> tier_results[i].edits_applied])

PlannedIn(label) ==
    SumSeq([i \in DOMAIN plan.tiers |->
               IF plan.tiers[i].tier = label THEN plan.tiers[i].changes ELSE 0])

PlannedInCommitted ==
    SumSeq([i \in DOMAIN commits |-> PlannedIn(commits[i].label)])

C36_ChangesMadeOverwritten ==
    /\ [][(pc = "implement" /\ pc' = "branch")
            => /\ run'.status = "pushing"
               /\ run'.changes_made = EditsApplied
               /\ run'.changes_made > 0]_vars
    /\ [](pc \in {"commit", "pr"}
            => /\ total_changes = PlannedInCommitted
               /\ run.status = "pushing")
    /\ [][(pc \in {"commit", "pr"} /\ pc' \in {"verify", "done"}
             /\ ~excepted')
            => /\ run'.changes_made = PlannedInCommitted
               /\ result'.changes_made = PlannedInCommitted]_vars

\* the commits are pushed and the count about to be persisted is smaller
\* than the one persisted with status pushing
C36_Witness ==
    /\ pc = "pr"
    /\ run.status = "pushing"
    /\ total_changes > 0
    /\ total_changes < run.changes_made

\* C37: a Run that ends before the pushing phase without an exception
\* (audit error, Planner error, nothing planned, nothing applied) ends with
\* completed_at unset; a Run that ends from the pushing phase onward, or
\* through the top-level exception handler, ends with completed_at set.
ReachedPushing == "pushing" \in Range(statusLog)

C37_CompletedAtOnlyFromPushing ==
    pc = "done"
    => /\ run.status \in {"complete", "failed"}
       /\ run.completed_at <=> (excepted \/ ReachedPushing)

\* a Run has ended complete, nothing applied, with completed_at unset
C37_Witness ==
    /\ pc = "done"
    /\ run.status = "complete"
    /\ run.error = <<"No changes could be applied to repo files">>
    /\ ~excepted
    /\ ~run.completed_at

\* C39: terminal states are absorbing: once an update with status complete
\* or failed has been issued, no further update is issued to the Run record
\* (the record and the log of issued statuses stay as they are), the
\* pipeline has returned, and the status of the returned result is the
\* last status issued.
C39_TerminalAbsorbing ==
    /\ [][run.status \in {"complete", "failed"}
            => /\ run' = run
               /\ statusLog' = statusLog
               /\ result' = result]_vars
    /\ [](run.status \in {"complete", "failed"} <=> pc = "done")
    /\ [](pc = "done"
            => /\ result.status = run.status
               /\ result.status = statusLog[Len(statusLog)])

\* a Run that went through the heal loop has ended
C39_Witness ==
    /\ pc = "done"
    /\ run.status = "complete"
    /\ run.deploy_status = "failed"
    /\ run.heal_attempts = 2
    /\ result.status = "complete"

\* C38: a failure of the persistence callback never changes the pipeline's
\* control flow or its returned result: whatever updates failed, the Run
\* issues all the updates of its path and returns the path's status,
\* pr_url and changes_made; the stored record holds only values the
\* pipeline issued (or its initial ones) and may lag behind.
IssuedValues(field) ==
    {srv.path.updates[i][field] :
        i \in {j \in 1..srv.issued : field \in DOMAIN srv.path.updates[j]}}

C38_PersistenceFailureHarmless ==
    /\ (srv.pc \in {"running", "returned"} /\ "path" \in DOMAIN srv)
         => \A field \in DOMAIN srv.row :
              srv.row[field] \in IssuedValues(field) \cup {StoredRun[field]}
    /\ (srv.pc = "returned" /\ "path" \in DOMAIN srv)
         => /\ srv.issued = Len(srv.path.updates)
            /\ srv.result = srv.path.result
            /\ srv.failed_updates = 0 => srv.row.status = srv.result.status

\* the Run returned complete with a review request while the stored record
\* is still at the status before the first failed update
C38_Witness ==
    /\ srv.pc = "returned"
    /\ "path" \in DOMAIN srv
    /\ srv.result.status = "complete"
    /\ srv.result.pr_url = "url"
    /\ srv.row.status = "pushing"
    /\ srv.row.pr_url = ""
    /\ srv.failed_updates > 0

====
